---------------------------- MODULE Spec2Model ----------------------------
(***************************************************************************)
(* A model of mimic (Greybox-Labs/mimic): the SQLite-backed store          *)
(* (storage.Database), the HTTP record engine (proxy.ProxyEngine), the     *)
(* raw gRPC record proxy (proxy.RawGRPCProxy) and the mock engine          *)
(* (mock.MockEngine).                                                      *)
(*                                                                         *)
(* The store is opened with "?_journal_mode=WAL&_busy_timeout=5000" and    *)
(* every transaction is started with db.Begin(), i.e. a DEFERRED SQLite    *)
(* transaction: the first SELECT takes a read snapshot, the first write    *)
(* has to upgrade it to the single WAL write lock.  A read transaction     *)
(* cannot wait for that lock (the busy handler is not invoked for an       *)
(* upgrade) and cannot upgrade a snapshot that another connection has      *)
(* written past: in both cases the statement fails with SQLITE_BUSY.       *)
(* A transaction whose first statement is a write waits for the lock.      *)
(***************************************************************************)
EXTENDS Integers, Sequences, FiniteSets, TLC

VARIABLES
    sessions,          \* table sessions: set of [id, session_name]
    interactions,      \* table interactions: set of rows
    stream_chunks,     \* table stream_chunks: set of [interaction_id, chunk_index, data]
    seq_sessions,      \* AUTOINCREMENT counter of sessions
    seq_interactions,  \* AUTOINCREMENT counter of interactions
    wal_writer,        \* the process holding the WAL write lock, 0 if none
    ri,                \* per process: the RecordInteraction call in progress
    rsc,               \* per process: the RecordStreamChunks call in progress
    h,                 \* per process: the handler (request) in progress
    sequenceState,     \* MockEngine.sequenceState: signature -> last sequence
    served,            \* history: what the mock engine served, in the order of service
    k0,                \* history: sequence numbers already stored when the run starts
    cfg,               \* the route's configuration (config.ProxyConfig)
    router,            \* MultiProxyServer.grpcRouter and the REST handler built at startup
    origin,            \* history: interaction id -> the response the upstream returned for it
    replay,            \* ReplayEngine: the run of Replay in progress and its results
    web,               \* web.Server: the broadcast dispatcher
    sse                \* SSEStreamReader: the upstream stream, what is left of it, the chunks read

vars == <<sessions, interactions, stream_chunks, seq_sessions, seq_interactions,
          wal_writer, ri, rsc, h, sequenceState, served, k0, cfg, router, origin, replay, web, sse>>

NoConfig == [enable_streaming |-> FALSE]
NoRouter == [state |-> "none"]
NoReplay == [pc |-> "none"]
NoWeb == [dispatcher |-> "none"]
NoReader == [pc |-> "none"]

-----------------------------------------------------------------------------
(* Bounds of the model *)

NumProcs == 2
MaxRows == 2
MaxPre == 1
MaxChunks == 2

Procs == 1..NumProcs
Endpoints == {"/x", "/y"}
SessionNames == {"s1"}

NoRow == [id |-> 0]
NoMetadata == <<>>
PartialMetadata == [status |-> "partial", failed_chunks |-> <<>>]

-----------------------------------------------------------------------------
(* The store *)

Row(id, sid, rid, method, ep, req, status, body, seq, streaming) ==
    [id |-> id, session_id |-> sid, request_id |-> rid, method |-> method,
     endpoint |-> ep, request |-> req, response_status |-> status,
     response_body |-> body, sequence_number |-> seq, metadata |-> NoMetadata,
     is_streaming |-> streaming]

SetMax(S) == CHOOSE m \in S : \A x \in S : x <= m

SetMin(S) == CHOOSE m \in S : \A x \in S : m <= x

SeqsOf(sid, ep) ==
    {r.sequence_number : r \in {x \in interactions : x.session_id = sid /\ x.endpoint = ep}}

\* SELECT COALESCE(MAX(sequence_number), 0) + 1 ... WHERE session_id = ? AND endpoint = ?
getNextSequenceNumber(sid, ep) ==
    IF SeqsOf(sid, ep) = {} THEN 1 ELSE SetMax(SeqsOf(sid, ep)) + 1

\* A commit by process p (0: a one-shot writer) moves the WAL past the snapshot of
\* every other transaction that has read and not yet written.
StaleAfterCommit(p) ==
    [q \in Procs |->
        IF q # p /\ ri[q].pc = "selected" THEN [ri[q] EXCEPT !.stale = TRUE] ELSE ri[q]]

IdleRI == [pc |-> "idle", row |-> NoRow, stale |-> FALSE]

\* RecordInteraction, entry: the caller hands over the interaction to record.
RecordInteraction_Call(p, row) ==
    /\ ri[p].pc = "idle"
    /\ ri' = [ri EXCEPT ![p] = [pc |-> "begin", row |-> row, stale |-> FALSE]]

\* d.db.Begin(); getNextSequenceNumber(tx, ...): the read snapshot is taken here.
\* fault: Begin or the SELECT fails.
RecordInteraction_Select(p, fault) ==
    /\ ri[p].pc = "begin"
    /\ IF fault
         THEN ri' = [ri EXCEPT ![p].pc = "err"]
         ELSE ri' = [ri EXCEPT ![p].pc = "selected",
                               ![p].row.sequence_number =
                                   getNextSequenceNumber(ri[p].row.session_id, ri[p].row.endpoint)]
    /\ UNCHANGED <<sessions, interactions, stream_chunks, seq_sessions,
                   seq_interactions, wal_writer>>

InsertFails(p) ==
    \/ wal_writer # 0                                   \* SQLITE_BUSY: lock held
    \/ ri[p].stale                                      \* SQLITE_BUSY_SNAPSHOT
    \/ \E r \in interactions : r.request_id = ri[p].row.request_id  \* UNIQUE(request_id)

\* tx.Exec(INSERT ...): upgrades the read transaction to the write lock.
RecordInteraction_Insert(p, fault) ==
    /\ ri[p].pc = "selected"
    /\ IF fault \/ InsertFails(p)
         THEN /\ ri' = [ri EXCEPT ![p].pc = "err"]          \* deferred tx.Rollback()
              /\ UNCHANGED wal_writer
         ELSE /\ ri' = [ri EXCEPT ![p].pc = "inserted",
                                  ![p].row.id = seq_interactions + 1]
              /\ wal_writer' = p
    /\ UNCHANGED <<sessions, interactions, stream_chunks, seq_sessions, seq_interactions>>

\* tx.Commit()
RecordInteraction_Commit(p, fault) ==
    /\ ri[p].pc = "inserted"
    /\ wal_writer' = 0
    /\ IF fault
         THEN /\ ri' = [ri EXCEPT ![p].pc = "err"]
              /\ UNCHANGED <<interactions, seq_interactions>>
         ELSE /\ interactions' = interactions \cup {ri[p].row}
              /\ seq_interactions' = seq_interactions + 1
              /\ ri' = [StaleAfterCommit(p) EXCEPT ![p].pc = "ok"]
    /\ UNCHANGED <<sessions, stream_chunks, seq_sessions>>

-----------------------------------------------------------------------------
(* N concurrent RecordInteraction calls with distinct request ids on one     *)
(* session (scenario E1 of the specification).                               *)

PreRows(k, ep) == {Row(i, 1, 100 + i, "GET", ep, "q", 200, "b", i, FALSE) : i \in 1..k}

InitRace ==
    /\ sessions = {[id |-> 1, session_name |-> "s1"]}
    /\ seq_sessions = 1
    /\ k0 \in [Endpoints -> 0..MaxPre]
    /\ \E e \in Endpoints :
          /\ interactions = PreRows(k0[e], e)
          /\ \A f \in Endpoints \ {e} : k0[f] = 0
          /\ seq_interactions = k0[e]
    /\ stream_chunks = {}
    /\ wal_writer = 0
    /\ ri = [p \in Procs |-> IdleRI]
    /\ rsc = [p \in Procs |-> [pc |-> "idle"]]
    /\ h = [p \in Procs |-> [pc |-> "idle"]]
    /\ sequenceState = <<>>
    /\ served = <<>>
    /\ cfg = NoConfig
    /\ router = NoRouter
    /\ origin = <<>>
    /\ replay = NoReplay
    /\ web = NoWeb
    /\ sse = NoReader

\* The test issues one call per process: request id p, session 1.
RaceCall(p) ==
    /\ h[p].pc = "idle"
    /\ \E ep \in Endpoints :
          /\ RecordInteraction_Call(p, Row(0, 1, p, "GET", ep, "q", 200, "b", 0, FALSE))
          /\ h' = [h EXCEPT ![p] = [pc |-> "called", endpoint |-> ep]]
    /\ UNCHANGED <<sessions, interactions, stream_chunks, seq_sessions, seq_interactions,
                   wal_writer, rsc, sequenceState, served, k0, cfg, router, origin, replay, web, sse>>

RaceSelect(p) ==
    /\ RecordInteraction_Select(p, FALSE)
    /\ UNCHANGED <<rsc, h, sequenceState, served, k0, cfg, router, origin, replay, web, sse>>

RaceInsert(p) ==
    /\ RecordInteraction_Insert(p, FALSE)
    /\ UNCHANGED <<rsc, h, sequenceState, served, k0, cfg, router, origin, replay, web, sse>>

RaceCommit(p) ==
    /\ RecordInteraction_Commit(p, FALSE)
    /\ UNCHANGED <<rsc, h, sequenceState, served, k0, cfg, router, origin, replay, web, sse>>

NextRace == \E p \in Procs : RaceCall(p) \/ RaceSelect(p) \/ RaceInsert(p) \/ RaceCommit(p)

SpecRace == InitRace /\ [][NextRace]_vars

RaceDone == \A p \in Procs : ri[p].pc \in {"ok", "err"}

CallsOn(ep) == {p \in Procs : h[p].pc = "called" /\ h[p].endpoint = ep}

\* C1: when the N concurrent calls on (session, endpoint) have returned, all N are
\* stored and the sequence numbers of (session, endpoint) are exactly 1..k+N, the
\* calls having been given k+1..k+N.
C1_AllStoredContiguous ==
    RaceDone =>
        \A ep \in Endpoints :
            /\ \A p \in CallsOn(ep) : ri[p].pc = "ok"
            /\ {r.sequence_number : r \in {x \in interactions : x.endpoint = ep /\ x.request_id \in Procs}}
                  = (k0[ep] + 1)..(k0[ep] + Cardinality(CallsOn(ep)))

-----------------------------------------------------------------------------
(* The store's other write paths: sessions, imports and clears.  Each of     *)
(* these transactions starts with a write, so it waits for the WAL write     *)
(* lock (wal_writer = 0) and then runs alone.                                *)

\* GetSession: SELECT ... WHERE session_name = ? (first row).
GetSession(name) ==
    LET found == {s \in sessions : s.session_name = name}
    IN  IF found = {} THEN 0 ELSE SetMin({s.id : s \in found})

\* GetOrCreateSession: the id returned and the table afterwards.
GetOrCreateSession_ID(name) ==
    IF GetSession(name) # 0 THEN GetSession(name) ELSE seq_sessions + 1

GetOrCreateSession_Table_AlwaysCreates(name) ==
    sessions \cup {[id |-> seq_sessions + 1, session_name |-> name]}

GetOrCreateSession_Table(name) ==
    IF GetSession(name) # 0 THEN sessions
    ELSE sessions \cup {[id |-> seq_sessions + 1, session_name |-> name]}

GetOrCreateSession_Seq(name) ==
    IF GetSession(name) # 0 THEN seq_sessions ELSE seq_sessions + 1

\* The rows an import inserts: the caller's sequence_number is stored as given.
ImportedRows(sid, batch) ==
    {Row(seq_interactions + i, sid, batch[i].request_id, "GET", batch[i].endpoint, "q",
         200, "b", batch[i].sequence_number, batch[i].is_streaming) : i \in 1..Len(batch)}

ImportFails(batch) ==
    \/ \E i \in 1..Len(batch) : \E r \in interactions : r.request_id = batch[i].request_id
    \/ \E i, j \in 1..Len(batch) : i # j /\ batch[i].request_id = batch[j].request_id

\* ImportInteractions(sessionName, interactions)
ImportInteractions(name, batch) ==
    /\ wal_writer = 0
    /\ sessions' = GetOrCreateSession_Table(name)
    /\ seq_sessions' = GetOrCreateSession_Seq(name)
    /\ IF ImportFails(batch)
         THEN UNCHANGED <<interactions, seq_interactions, ri>>
         ELSE /\ interactions' = interactions \cup ImportedRows(GetOrCreateSession_ID(name), batch)
              /\ seq_interactions' = seq_interactions + Len(batch)
              /\ ri' = StaleAfterCommit(0)
    /\ UNCHANGED <<stream_chunks, wal_writer>>

\* ImportInteractionWithChunks(sessionName, interaction, chunks)
ImportInteractionWithChunks(name, interaction, chunks) ==
    /\ wal_writer = 0
    /\ sessions' = GetOrCreateSession_Table(name)
    /\ seq_sessions' = GetOrCreateSession_Seq(name)
    /\ IF ImportFails(<<interaction>>)
         THEN UNCHANGED <<interactions, seq_interactions, stream_chunks, ri>>
         ELSE /\ interactions' = interactions \cup
                                   ImportedRows(GetOrCreateSession_ID(name), <<interaction>>)
              /\ seq_interactions' = seq_interactions + 1
              /\ stream_chunks' = stream_chunks \cup
                    {[interaction_id |-> seq_interactions + 1, chunk_index |-> chunks[i],
                      data |-> "d"] : i \in 1..Len(chunks)}
              /\ ri' = StaleAfterCommit(0)
    /\ UNCHANGED wal_writer

\* ClearSession(sessionName): "session not found" leaves the store as it is.
ClearSession(name) ==
    /\ wal_writer = 0
    /\ GetSession(name) # 0
    /\ LET sid == GetSession(name)
           gone == {r \in interactions : r.session_id = sid}
       IN  /\ stream_chunks' = {c \in stream_chunks :
                                   c.interaction_id \notin {r.id : r \in gone}}
           /\ interactions' = interactions \ gone
           /\ sessions' = {s \in sessions : s.id # sid}
    /\ ri' = StaleAfterCommit(0)
    /\ UNCHANGED <<seq_sessions, seq_interactions, wal_writer>>

\* ClearAllSessions()
ClearAllSessions ==
    /\ wal_writer = 0
    /\ stream_chunks' = {}
    /\ interactions' = {}
    /\ sessions' = {}
    /\ ri' = StaleAfterCommit(0)
    /\ UNCHANGED <<seq_sessions, seq_interactions, wal_writer>>

-----------------------------------------------------------------------------
(* The store under any sequence of record, import and clear operations.      *)

MaxSessions == 2

\* Request ids and sequence numbers found in import files.
ImportIds == {11}
SequenceNumbers == {1, 2}

ImportRecords(streaming) ==
    [request_id : ImportIds, endpoint : Endpoints, sequence_number : SequenceNumbers,
     is_streaming : {streaming}]

InitStore ==
    /\ sessions = {[id |-> 1, session_name |-> "s1"]}
    /\ seq_sessions = 1
    /\ interactions = {}
    /\ seq_interactions = 0
    /\ stream_chunks = {}
    /\ wal_writer = 0
    /\ ri = [p \in Procs |-> IdleRI]
    /\ rsc = [p \in Procs |-> [pc |-> "idle"]]
    /\ h = [p \in Procs |-> [pc |-> "idle"]]
    /\ sequenceState = <<>>
    /\ served = <<>>
    /\ k0 = [e \in Endpoints |-> 0]
    /\ cfg = NoConfig
    /\ router = NoRouter
    /\ origin = <<>>
    /\ replay = NoReplay
    /\ web = NoWeb
    /\ sse = NoReader

\* A record engine calls RecordInteraction with the session id it obtained at start.
StoreCall(p) ==
    /\ seq_interactions < MaxRows
    /\ \E sid \in 1..seq_sessions, ep \in Endpoints :
          RecordInteraction_Call(p, Row(0, sid, p, "GET", ep, "q", 200, "b", 0, FALSE))
    /\ UNCHANGED <<sessions, interactions, stream_chunks, seq_sessions, seq_interactions,
                   wal_writer, rsc, h, sequenceState, served, k0, cfg, router, origin, replay, web, sse>>

StoreSelect(p) ==
    /\ RecordInteraction_Select(p, FALSE)
    /\ UNCHANGED <<rsc, h, sequenceState, served, k0, cfg, router, origin, replay, web, sse>>

StoreInsert(p) ==
    /\ RecordInteraction_Insert(p, FALSE)
    /\ UNCHANGED <<rsc, h, sequenceState, served, k0, cfg, router, origin, replay, web, sse>>

StoreCommit(p) ==
    /\ RecordInteraction_Commit(p, FALSE)
    /\ UNCHANGED <<rsc, h, sequenceState, served, k0, cfg, router, origin, replay, web, sse>>

StoreReturn(p) ==
    /\ ri[p].pc \in {"ok", "err"}
    /\ ri' = [ri EXCEPT ![p] = IdleRI]
    /\ UNCHANGED <<sessions, interactions, stream_chunks, seq_sessions, seq_interactions,
                   wal_writer, rsc, h, sequenceState, served, k0, cfg, router, origin, replay, web, sse>>

StoreImport ==
    /\ \E name \in SessionNames, r \in ImportRecords(FALSE) :
          /\ seq_interactions < MaxRows
          /\ GetSession(name) # 0 \/ seq_sessions < MaxSessions
          /\ ImportInteractions(name, <<r>>)
    /\ UNCHANGED <<rsc, h, sequenceState, served, k0, cfg, router, origin, replay, web, sse>>

StoreImportWithChunks ==
    /\ \E name \in SessionNames, r \in ImportRecords(TRUE), n \in 0..MaxChunks :
          /\ seq_interactions < MaxRows
          /\ GetSession(name) # 0 \/ seq_sessions < MaxSessions
          /\ ImportInteractionWithChunks(name, r, [i \in 1..n |-> i - 1])
    /\ UNCHANGED <<rsc, h, sequenceState, served, k0, cfg, router, origin, replay, web, sse>>

StoreClearSession ==
    /\ \E name \in SessionNames : ClearSession(name)
    /\ UNCHANGED <<rsc, h, sequenceState, served, k0, cfg, router, origin, replay, web, sse>>

StoreClearAll ==
    /\ ClearAllSessions
    /\ UNCHANGED <<rsc, h, sequenceState, served, k0, cfg, router, origin, replay, web, sse>>

NextStore ==
    \/ \E p \in Procs : StoreCall(p) \/ StoreSelect(p) \/ StoreInsert(p)
                           \/ StoreCommit(p) \/ StoreReturn(p)
    \/ StoreImport
    \/ StoreImportWithChunks
    \/ StoreClearSession
    \/ StoreClearAll

SpecStore == InitStore /\ [][NextStore]_vars

\* C2: no two stored interactions of one (session, endpoint) have the same
\* sequence_number, after any sequence of record, import and clear operations.
C2_NoDuplicateSequence ==
    \A r1, r2 \in interactions :
        (r1.session_id = r2.session_id /\ r1.endpoint = r2.endpoint
            /\ r1.sequence_number = r2.sequence_number) => r1 = r2

-----------------------------------------------------------------------------
(* RecordStreamChunks(chunks): one transaction that inserts the whole batch. *)
(* rsc[p].n counts the rows inserted so far inside the open transaction;     *)
(* they become visible to the other connections at the commit.               *)

IdleRSC == [pc |-> "idle", batch |-> <<>>, n |-> 0, kept |-> {}]

ChunkRows(batch) == {batch[i] : i \in 1..Len(batch)}

\* An empty slice returns nil at once; otherwise the transaction is begun.
RecordStreamChunks_Call_AlwaysBegins(p, batch) ==
    /\ rsc[p].pc \in {"idle", "ok", "err"}
    /\ rsc' = [rsc EXCEPT ![p] = [pc |-> "tx", batch |-> batch, n |-> 0,
                                  kept |-> IF rsc[p].pc = "ok"
                                             THEN rsc[p].kept \cup ChunkRows(rsc[p].batch)
                                             ELSE rsc[p].kept]]

RecordStreamChunks_Call(p, batch) ==
    /\ rsc[p].pc \in {"idle", "ok", "err"}
    /\ rsc' = [rsc EXCEPT ![p] = [pc |-> IF Len(batch) = 0 THEN "ok" ELSE "tx",
                                  batch |-> batch, n |-> 0,
                                  kept |-> IF rsc[p].pc = "ok"
                                             THEN rsc[p].kept \cup ChunkRows(rsc[p].batch)
                                             ELSE rsc[p].kept]]

\* A variant that writes every row in a transaction of its own.
RecordStreamChunks_InsertRow_Autocommit(p, fault) ==
    /\ rsc[p].pc = "tx"
    /\ rsc[p].n < Len(rsc[p].batch)
    /\ wal_writer = 0
    /\ IF fault
         THEN /\ rsc' = [rsc EXCEPT ![p].pc = "err"]
              /\ UNCHANGED stream_chunks
         ELSE /\ rsc' = [rsc EXCEPT ![p].n = rsc[p].n + 1]
              /\ stream_chunks' = stream_chunks \cup {rsc[p].batch[rsc[p].n + 1]}
    /\ UNCHANGED <<sessions, interactions, seq_sessions, seq_interactions, wal_writer, ri>>

\* The INSERT of row n+1.  The first INSERT takes the WAL write lock (waiting
\* for it); a row error rolls the transaction back.
RecordStreamChunks_InsertRow(p, fault) ==
    /\ rsc[p].pc = "tx"
    /\ rsc[p].n < Len(rsc[p].batch)
    /\ wal_writer \in {0, p}
    /\ IF fault
         THEN /\ rsc' = [rsc EXCEPT ![p].pc = "err"]
              /\ wal_writer' = 0
         ELSE /\ rsc' = [rsc EXCEPT ![p].n = rsc[p].n + 1]
              /\ wal_writer' = p
    /\ UNCHANGED <<sessions, interactions, stream_chunks, seq_sessions, seq_interactions, ri>>

\* tx.Commit()
RecordStreamChunks_Commit(p, fault) ==
    /\ rsc[p].pc = "tx"
    /\ rsc[p].n = Len(rsc[p].batch)
    /\ wal_writer' = 0
    /\ IF fault
         THEN /\ rsc' = [rsc EXCEPT ![p].pc = "err"]
              /\ UNCHANGED <<stream_chunks, ri>>
         ELSE /\ rsc' = [rsc EXCEPT ![p].pc = "ok"]
              /\ stream_chunks' = stream_chunks \cup ChunkRows(rsc[p].batch)
              /\ ri' = StaleAfterCommit(0)
    /\ UNCHANGED <<sessions, interactions, seq_sessions, seq_interactions>>

-----------------------------------------------------------------------------
(* RecordStreamChunks called directly and concurrently, one streaming        *)
(* interaction per process, some of them with a batch stored earlier         *)
(* (storage/database_test.go).                                               *)

StoredFor(id) == {c \in stream_chunks : c.interaction_id = id}

\* The batch stored earlier for interaction id: its chunk 0.
EarlierBatch(id) == <<[interaction_id |-> id, chunk_index |-> 0, data |-> "d"]>>

\* The next batch of process p: n chunks, indexed after the chunks it stored before.
NextBatch(p, n) ==
    [i \in 1..n |-> [interaction_id |-> p,
                     chunk_index |-> Cardinality(StoredFor(p)) + i - 1,
                     data |-> "d"]]

InitChunks ==
    /\ sessions = {[id |-> 1, session_name |-> "s1"]}
    /\ seq_sessions = 1
    /\ interactions = {Row(p, 1, p, "GET", "/x", "q", 200, "", p, TRUE) : p \in Procs}
    /\ seq_interactions = NumProcs
    /\ \E earlier \in SUBSET Procs :
          /\ stream_chunks = UNION {ChunkRows(EarlierBatch(p)) : p \in earlier}
          /\ rsc = [p \in Procs |->
                      [IdleRSC EXCEPT !.kept = IF p \in earlier
                                                 THEN ChunkRows(EarlierBatch(p)) ELSE {}]]
    /\ wal_writer = 0
    /\ ri = [p \in Procs |-> IdleRI]
    /\ h = [p \in Procs |-> [pc |-> "idle"]]
    /\ sequenceState = <<>>
    /\ served = <<>>
    /\ k0 = [e \in Endpoints |-> 0]
    /\ cfg = NoConfig
    /\ router = NoRouter
    /\ origin = <<>>
    /\ replay = NoReplay
    /\ web = NoWeb
    /\ sse = NoReader

ChunksCall(p) ==
    /\ rsc[p].pc = "idle"
    /\ \E n \in 0..MaxChunks : RecordStreamChunks_Call(p, NextBatch(p, n))
    /\ UNCHANGED <<sessions, interactions, stream_chunks, seq_sessions, seq_interactions,
                   wal_writer, ri, h, sequenceState, served, k0, cfg, router, origin, replay, web, sse>>

ChunksInsertRow(p) ==
    /\ \E fault \in BOOLEAN : RecordStreamChunks_InsertRow(p, fault)
    /\ UNCHANGED <<h, sequenceState, served, k0, cfg, router, origin, replay, web, sse>>

ChunksCommit(p) ==
    /\ \E fault \in BOOLEAN : RecordStreamChunks_Commit(p, fault)
    /\ UNCHANGED <<h, sequenceState, served, k0, cfg, router, origin, replay, web, sse>>

NextChunks == \E p \in Procs : ChunksCall(p) \/ ChunksInsertRow(p) \/ ChunksCommit(p)

SpecChunks == InitChunks /\ [][NextChunks]_vars

\* C3: a RecordStreamChunks call stores every chunk of its batch and returns
\* success, or stores none of them and returns an error; at no time is only a part
\* of a batch stored, and the chunks of earlier successful batches are kept.
C3_BatchAllOrNothing ==
    \A p \in Procs :
        LET batch == ChunkRows(rsc[p].batch)
        IN  /\ rsc[p].pc = "ok" => batch \subseteq stream_chunks
            /\ rsc[p].pc = "err" => batch \cap stream_chunks = {}
            /\ batch \subseteq stream_chunks \/ batch \cap stream_chunks = {}
            /\ rsc[p].kept \subseteq stream_chunks

\* A batch of two chunks failed at its second row after an earlier batch was stored,
\* and another batch of two chunks was stored.
C3_Witness ==
    \E p, q \in Procs :
        /\ rsc[p].pc = "err" /\ Len(rsc[p].batch) = 2 /\ rsc[p].n = 1
        /\ rsc[p].kept # {}
        /\ rsc[q].pc = "ok" /\ Len(rsc[q].batch) = 2

-----------------------------------------------------------------------------
(* The HTTP record engine: ProxyEngine.handleRequest and                     *)
(* ProxyEngine.handleStreamingResponse.  net/http serves every request in a  *)
(* goroutine of its own, so a process is one request in flight.              *)

StatusInternalServerError == 500
StatusBadGateway == 502
StatusUpstream == {200, 404}

ContentTypes == {"application/json", "text/event-stream"}

\* A response body is a sequence of pieces: the events of an SSE body, and one
\* piece for any other body.
Bodies(ct) ==
    IF ct = "text/event-stream" THEN {[i \in 1..n |-> i] : n \in 0..MaxChunks} ELSE {<<1>>}

\* What p.client.Do returns: a transport error or a response.
UpstreamOutcomes ==
    {[kind |-> "error"]} \cup
    UNION {{[kind |-> "response", status |-> st, content_type |-> ct, body |-> b] :
               st \in StatusUpstream, b \in Bodies(ct)} : ct \in ContentTypes}

NoResponse == [kind |-> "none"]

\* What the client has been sent: nothing yet.
NothingSent == [status |-> 0, body |-> <<>>]

IdleHandler ==
    [pc |-> "idle", interaction |-> NoRow, resp |-> NoResponse, client |-> NothingSent,
     chunks |-> <<>>, copy_err |-> "", record_err |-> FALSE, chunks_err |-> FALSE,
     mark_err |-> FALSE]

\* http.Error(w, msg, code); return
HttpError(hp, msg, code) ==
    [hp EXCEPT !.pc = "done", !.client = [status |-> code, body |-> <<msg>>]]

\* strings.Contains(strings.ToLower(contentType), "text/event-stream")
IsSSEResponse(contentType) == contentType = "text/event-stream"

IsStreamingResponse(resp) == IsSSEResponse(resp.content_type)

\* handleRequest from the return of p.client.Do up to the call of RecordInteraction:
\* the state of the handler after it.  fault: the response cannot be extracted.
\* This variant records a failed forward as an interaction of status 502.
AfterDo_RecordsError(hp, resp, fault) ==
    IF resp.kind = "error"
      THEN [hp EXCEPT !.pc = "record", !.resp = resp,
                      !.interaction.response_status = StatusBadGateway]
    ELSE IF fault
      THEN HttpError([hp EXCEPT !.resp = resp], "Internal Server Error", StatusInternalServerError)
    ELSE IF cfg.enable_streaming /\ IsStreamingResponse(resp)
      THEN [hp EXCEPT !.pc = "record", !.resp = resp,
                      !.interaction.response_status = resp.status,
                      !.interaction.is_streaming = TRUE]
    ELSE [hp EXCEPT !.pc = "record", !.resp = resp,
                    !.interaction.response_status = resp.status,
                    !.interaction.response_body = resp.body]

AfterDo(hp, resp, fault) ==
    IF resp.kind = "error"
      THEN HttpError([hp EXCEPT !.resp = resp], "Bad Gateway", StatusBadGateway)
    ELSE IF fault
      THEN HttpError([hp EXCEPT !.resp = resp], "Internal Server Error", StatusInternalServerError)
    ELSE IF cfg.enable_streaming /\ IsStreamingResponse(resp)
      THEN [hp EXCEPT !.pc = "record", !.resp = resp,
                      !.interaction.response_status = resp.status,
                      !.interaction.is_streaming = TRUE]
    ELSE [hp EXCEPT !.pc = "record", !.resp = resp,
                    !.interaction.response_status = resp.status,
                    !.interaction.response_body = resp.body]

\* ExtractRequest, CopyRequest, p.client.Do, and for a response the call of
\* RecordInteraction.  fault: ExtractRequest or CopyRequest fails.
handleRequest_Forward(p) ==
    /\ h[p].pc = "idle"
    /\ \E fault \in BOOLEAN, resp \in UpstreamOutcomes, rfault \in BOOLEAN :
          LET hp == [h[p] EXCEPT !.interaction = Row(0, 1, p, "GET", "/x", "q", 0, <<>>, 0, FALSE)]
              next == IF fault
                        THEN HttpError(hp, "Internal Server Error", StatusInternalServerError)
                        ELSE AfterDo(hp, resp, rfault)
          IN  /\ h' = [h EXCEPT ![p] = next]
              /\ IF next.pc = "record"
                   THEN RecordInteraction_Call(p, next.interaction)
                   ELSE UNCHANGED ri
    /\ UNCHANGED <<sessions, interactions, stream_chunks, seq_sessions, seq_interactions,
                   wal_writer, rsc, sequenceState, served, k0, cfg, router, origin, replay, web, sse>>

RecordSelect(p) ==
    /\ h[p].pc = "record"
    /\ \E fault \in BOOLEAN : RecordInteraction_Select(p, fault)
    /\ UNCHANGED <<rsc, h, sequenceState, served, k0, cfg, router, origin, replay, web, sse>>

RecordInsert(p) ==
    /\ h[p].pc = "record"
    /\ \E fault \in BOOLEAN : RecordInteraction_Insert(p, fault)
    /\ UNCHANGED <<rsc, h, sequenceState, served, k0, cfg, router, origin, replay, web, sse>>

RecordCommit(p) ==
    /\ h[p].pc = "record"
    /\ \E fault \in BOOLEAN : RecordInteraction_Commit(p, fault)
    /\ UNCHANGED <<rsc, h, sequenceState, served, k0, cfg, router, origin, replay, web, sse>>

\* RESTHandler.CopyResponse: the status is written, then the body is copied; for a
\* client that has gone away the copy fails, and the error is only logged.
CopyResponse(resp, connected) ==
    [status |-> resp.status, body |-> IF connected THEN resp.body ELSE <<>>]

\* handleRequest after RecordInteraction has returned: its error is only logged,
\* and the response is copied to the client.
handleRequest_CopyResponse(p) ==
    /\ h[p].pc = "record"
    /\ ~h[p].interaction.is_streaming
    /\ ri[p].pc \in {"ok", "err"}
    /\ \E connected \in BOOLEAN :
          h' = [h EXCEPT ![p].pc = "done",
                         ![p].record_err = (ri[p].pc = "err"),
                         ![p].interaction = IF ri[p].pc = "ok" THEN ri[p].row ELSE @,
                         ![p].copy_err = IF connected THEN "" ELSE "broken pipe",
                         ![p].client = CopyResponse(h[p].resp, connected)]
    /\ ri' = [ri EXCEPT ![p] = IdleRI]
    /\ UNCHANGED <<sessions, interactions, stream_chunks, seq_sessions, seq_interactions,
                   wal_writer, rsc, sequenceState, served, k0, cfg, router, origin, replay, web, sse>>

\* RESTHandler.CopyStreamingResponse: every event read from upstream is kept and
\* written to the client, until the end of the stream ("eof"), until the write of
\* event k fails ("broken pipe"), or until the read after event k fails ("read").
CopyStreamingResponse(body, outcome, k) ==
    IF outcome = "eof"
      THEN [chunks |-> body, sent |-> body, err |-> ""]
    ELSE IF outcome = "broken pipe"
      THEN [chunks |-> SubSeq(body, 1, k), sent |-> SubSeq(body, 1, k - 1), err |-> outcome]
    ELSE [chunks |-> SubSeq(body, 1, k), sent |-> SubSeq(body, 1, k), err |-> outcome]

CopyOutcomes(body) ==
    {<<"eof", Len(body)>>}
      \cup {<<"broken pipe", k>> : k \in 1..Len(body)}
      \cup {<<"read", k>> : k \in 0..(Len(body) - 1)}

\* streamChunks[i] = {InteractionID: interaction.ID, ChunkIndex: i, Data: chunk.RawData}
\* This variant numbers the chunks from 1.
StreamChunks_FromOne(id, chunks) ==
    [i \in 1..Len(chunks) |-> [interaction_id |-> id, chunk_index |-> i, data |-> chunks[i]]]

StreamChunks(id, chunks) ==
    [i \in 1..Len(chunks) |-> [interaction_id |-> id, chunk_index |-> i - 1, data |-> chunks[i]]]

\* handleStreamingResponse after CopyStreamingResponse has returned: its error is
\* only logged and the chunks captured so far are handed to RecordStreamChunks.
\* This variant gives up on an error.
AfterCopy_GivesUp(hp, copied) ==
    [hp EXCEPT !.pc = IF copied.err = "" THEN "chunks" ELSE "done",
               !.chunks = copied.chunks,
               !.copy_err = copied.err,
               !.client = [status |-> hp.resp.status, body |-> copied.sent]]

AfterCopy(hp, copied) ==
    [hp EXCEPT !.pc = "chunks",
               !.chunks = copied.chunks,
               !.copy_err = copied.err,
               !.client = [status |-> hp.resp.status, body |-> copied.sent]]

\* handleStreamingResponse after RecordInteraction has returned: on an error the
\* client is sent 500; otherwise the stream is copied and the batch write begun.
handleStreamingResponse_Copy(p) ==
    /\ h[p].pc = "record"
    /\ h[p].interaction.is_streaming
    /\ ri[p].pc \in {"ok", "err"}
    /\ ri' = [ri EXCEPT ![p] = IdleRI]
    /\ IF ri[p].pc = "err"
         THEN /\ h' = [h EXCEPT ![p] = HttpError([h[p] EXCEPT !.record_err = TRUE],
                                                 "Internal Server Error",
                                                 StatusInternalServerError)]
              /\ UNCHANGED rsc
         ELSE \E o \in CopyOutcomes(h[p].resp.body) :
                 LET next == AfterCopy([h[p] EXCEPT !.interaction = ri[p].row],
                                       CopyStreamingResponse(h[p].resp.body, o[1], o[2]))
                 IN  /\ h' = [h EXCEPT ![p] = next]
                     /\ IF next.pc = "chunks"
                          THEN RecordStreamChunks_Call(p, StreamChunks(next.interaction.id, next.chunks))
                          ELSE UNCHANGED rsc
    /\ UNCHANGED <<sessions, interactions, stream_chunks, seq_sessions, seq_interactions,
                   wal_writer, sequenceState, served, k0, cfg, router, origin, replay, web, sse>>

RecordChunksInsertRow(p) ==
    /\ h[p].pc = "chunks"
    /\ \E fault \in BOOLEAN : RecordStreamChunks_InsertRow(p, fault)
    /\ UNCHANGED <<h, sequenceState, served, k0, cfg, router, origin, replay, web, sse>>

RecordChunksCommit(p) ==
    /\ h[p].pc = "chunks"
    /\ \E fault \in BOOLEAN : RecordStreamChunks_Commit(p, fault)
    /\ UNCHANGED <<h, sequenceState, served, k0, cfg, router, origin, replay, web, sse>>

\* json.Marshal({"status": "partial", "failed_chunks": failedChunks})
\* This variant reports the interaction as failed.
MarkInteractionAsPartial_Metadata_Failed(failedChunks) ==
    [status |-> "failed", failed_chunks |-> failedChunks]

MarkInteractionAsPartial_Metadata(failedChunks) ==
    [status |-> "partial", failed_chunks |-> failedChunks]

\* UPDATE interactions SET metadata = ? WHERE id = ?   (a write of its own, which
\* waits for the write lock; fault: the statement fails)
MarkInteractionAsPartial(interactionID, failedChunks, fault) ==
    IF fault
      THEN UNCHANGED <<interactions, ri>>
      ELSE /\ wal_writer = 0
           /\ interactions' =
                 {IF r.id = interactionID
                    THEN [r EXCEPT !.metadata = MarkInteractionAsPartial_Metadata(failedChunks)]
                    ELSE r : r \in interactions}
           /\ ri' = StaleAfterCommit(0)

\* handleStreamingResponse after RecordStreamChunks has returned: on an error the
\* interaction is marked partial, and an error of that is only logged.
handleStreamingResponse_Stored(p) ==
    /\ h[p].pc = "chunks"
    /\ rsc[p].pc \in {"ok", "err"}
    /\ rsc' = [rsc EXCEPT ![p] = IdleRSC]
    /\ IF rsc[p].pc = "ok"
         THEN /\ h' = [h EXCEPT ![p].pc = "done"]
              /\ UNCHANGED <<interactions, ri>>
         ELSE \E fault \in BOOLEAN :
                 /\ MarkInteractionAsPartial(h[p].interaction.id, <<>>, fault)
                 /\ h' = [h EXCEPT ![p].pc = "done", ![p].chunks_err = TRUE,
                                   ![p].mark_err = fault]
    /\ UNCHANGED <<sessions, stream_chunks, seq_sessions, seq_interactions, wal_writer,
                   sequenceState, served, k0, cfg, router, origin, replay, web, sse>>

\* NewProxyEngine: the session exists, nothing is recorded yet, and the route has
\* streaming enabled or not.
InitRecord ==
    /\ sessions = {[id |-> 1, session_name |-> "s1"]}
    /\ seq_sessions = 1
    /\ interactions = {}
    /\ seq_interactions = 0
    /\ stream_chunks = {}
    /\ wal_writer = 0
    /\ ri = [p \in Procs |-> IdleRI]
    /\ rsc = [p \in Procs |-> IdleRSC]
    /\ h = [p \in Procs |-> IdleHandler]
    /\ sequenceState = <<>>
    /\ served = <<>>
    /\ k0 = [e \in Endpoints |-> 0]
    /\ cfg \in {[enable_streaming |-> b] : b \in BOOLEAN}
    /\ router = NoRouter
    /\ origin = <<>>
    /\ replay = NoReplay
    /\ web = NoWeb
    /\ sse = NoReader

NextRecord ==
    \E p \in Procs :
        \/ handleRequest_Forward(p)
        \/ RecordSelect(p)
        \/ RecordInsert(p)
        \/ RecordCommit(p)
        \/ handleRequest_CopyResponse(p)
        \/ handleStreamingResponse_Copy(p)
        \/ RecordChunksInsertRow(p)
        \/ RecordChunksCommit(p)
        \/ handleStreamingResponse_Stored(p)

SpecRecord == InitRecord /\ [][NextRecord]_vars

\* The requests that were answered as SSE streams and have run to their end.
StreamedDone == {p \in Procs : h[p].pc = "done" /\ h[p].interaction.is_streaming}

ChunkIndexes(id) == {c.chunk_index : c \in StoredFor(id)}

C7_TransportErrorNotStored ==
    \A p \in Procs :
        (h[p].pc # "idle" /\ h[p].resp.kind = "error") =>
            /\ h[p].pc = "done"
            /\ h[p].client = [status |-> 502, body |-> <<"Bad Gateway">>]
            /\ ~\E r \in interactions : r.request_id = h[p].interaction.request_id
            /\ ri[p].pc = "idle"

\* A forward failed while another request was recorded.
C7_Witness ==
    \E p, q \in Procs :
        /\ h[p].pc = "done" /\ h[p].resp.kind = "error"
        /\ h[q].pc = "done" /\ h[q].interaction \in interactions

\* C8 (as stated): when RecordInteraction fails, for a plain and for an SSE
\* response alike, a client that is still connected is sent the upstream response
\* with its status and content.
C8_StoreFailureStillDelivers ==
    \A p \in Procs :
        (h[p].pc = "done" /\ h[p].record_err /\ h[p].copy_err = "") =>
            h[p].client = [status |-> h[p].resp.status, body |-> h[p].resp.body]

CapturedRows(p) ==
    {[interaction_id |-> h[p].interaction.id, chunk_index |-> i - 1, data |-> h[p].chunks[i]] :
        i \in 1..Len(h[p].chunks)}

-----------------------------------------------------------------------------
(* The HTTP mock engine: MockEngine.handleRequest serving requests from a    *)
(* recorded session, one process per request in flight.                      *)

MaxRecorded == 3
MaxServed == 4

RequestBodies == {"q", "r"}

\* The rows a record engine stored for the requests bodies[1], bodies[2], ... on
\* /x, after one request on /y.
RecordedRows(bodies) ==
    {Row(9, 1, 9, "GET", "/y", "q", 200, <<9>>, 1, FALSE)} \cup
    {Row(i, 1, i, "GET", "/x", bodies[i], 200, <<i>>, i, FALSE) : i \in 1..Len(bodies)}

RECURSIVE OrderBySequenceNumber(_)
\* ORDER BY sequence_number ASC
OrderBySequenceNumber(S) ==
    IF S = {} THEN <<>>
    ELSE LET first == CHOOSE r \in S : \A x \in S : r.sequence_number <= x.sequence_number
         IN  <<first>> \o OrderBySequenceNumber(S \ {first})

\* SELECT ... WHERE session_id = ? AND method = ? AND endpoint = ? ORDER BY sequence_number ASC
FindMatchingInteractions(sessionID, method, endpoint) ==
    OrderBySequenceNumber({r \in interactions :
        r.session_id = sessionID /\ r.method = method /\ r.endpoint = endpoint})

\* matchesHeaders and matchesBody under the exact strategy: the requests of the
\* model carry the same headers, and the bodies are compared byte for byte.
matchesRequestContent(interaction, r) == interaction.request = r.body

filterMatchingInteractions(list, r) ==
    SelectSeq(list, LAMBDA interaction : matchesRequestContent(interaction, r))

\* fmt.Sprintf("%s:%s:%s:%s", r.Method, r.URL.Path, headersStr, string(body))
getRequestSignature(r) == <<r.method, r.endpoint, r.body>>

\* m.sequenceState[signature]: a map read, zero when the key is absent.
currentSequence_AlwaysFresh(signature) == 0

currentSequence(signature) ==
    IF signature \in DOMAIN sequenceState THEN sequenceState[signature] ELSE 0

\* The loop of selectSequentialInteraction: the index of the first interaction of
\* the list numbered above the cursor, or of the first of the list if none is.
\* This variant also accepts the interaction numbered as the cursor.
nextInSequence_AtOrAbove(list, cursor) ==
    IF \E i \in 1..Len(list) : list[i].sequence_number >= cursor
      THEN SetMin({i \in 1..Len(list) : list[i].sequence_number >= cursor})
      ELSE 1

nextInSequence(list, cursor) ==
    IF \E i \in 1..Len(list) : list[i].sequence_number > cursor
      THEN SetMin({i \in 1..Len(list) : list[i].sequence_number > cursor})
      ELSE 1

IdleMock == [pc |-> "idle", req |-> NoResponse, candidates |-> <<>>, client |-> NothingSent]

\* handleRequest up to the filter: no candidate is answered by sendNotFoundResponse.
MockFind(p) ==
    /\ h[p].pc \in {"idle", "done"}
    /\ Len(served) + Cardinality({q \in Procs : h[q].pc = "found"}) < MaxServed
    /\ \E body \in RequestBodies :
          LET r == [method |-> "GET", endpoint |-> "/x", body |-> body]
              matching == filterMatchingInteractions(FindMatchingInteractions(1, r.method, r.endpoint), r)
          IN  h' = [h EXCEPT ![p] =
                      IF Len(matching) = 0
                        THEN [pc |-> "done", req |-> r, candidates |-> matching,
                              client |-> [status |-> 404, body |-> <<"Recording not found">>]]
                        ELSE [pc |-> "found", req |-> r, candidates |-> matching,
                              client |-> NothingSent]]
    /\ UNCHANGED <<sessions, interactions, stream_chunks, seq_sessions, seq_interactions,
                   wal_writer, ri, rsc, sequenceState, served, k0, cfg, router, origin, replay, web, sse>>

\* selectSequentialInteraction under m.sequenceMutex, and sendMockResponse.
MockSelect(p) ==
    /\ h[p].pc = "found"
    /\ LET signature == getRequestSignature(h[p].req)
           selected == h[p].candidates[nextInSequence(h[p].candidates, currentSequence(signature))]
       IN  /\ sequenceState' =
                 [sg \in DOMAIN sequenceState \cup {signature} |->
                     IF sg = signature THEN selected.sequence_number ELSE sequenceState[sg]]
           /\ served' = Append(served, [signature |-> signature, interaction |-> selected])
           /\ h' = [h EXCEPT ![p].pc = "done",
                             ![p].client = [status |-> selected.response_status,
                                            body |-> selected.response_body]]
    /\ UNCHANGED <<sessions, interactions, stream_chunks, seq_sessions, seq_interactions,
                   wal_writer, ri, rsc, k0, cfg, router, origin, replay, web, sse>>

\* NewMockEngine on a store that a record engine has filled.
InitMock ==
    /\ sessions = {[id |-> 1, session_name |-> "s1"]}
    /\ seq_sessions = 1
    /\ \E n \in 0..MaxRecorded : \E bodies \in [1..n -> RequestBodies] :
          interactions = RecordedRows(bodies)
    /\ seq_interactions = 9
    /\ stream_chunks = {}
    /\ wal_writer = 0
    /\ ri = [p \in Procs |-> IdleRI]
    /\ rsc = [p \in Procs |-> IdleRSC]
    /\ h = [p \in Procs |-> IdleMock]
    /\ sequenceState = <<>>
    /\ served = <<>>
    /\ k0 = [e \in Endpoints |-> 0]
    /\ cfg = NoConfig
    /\ router = NoRouter
    /\ origin = <<>>
    /\ replay = NoReplay
    /\ web = NoWeb
    /\ sse = NoReader

NextMock == \E p \in Procs : MockFind(p) \/ MockSelect(p)

SpecMock == InitMock /\ [][NextMock]_vars

\* The recorded candidates of the requests with this body on /x.
CandidatesOf(body) ==
    {r \in interactions : r.session_id = 1 /\ r.method = "GET" /\ r.endpoint = "/x"
                          /\ r.request = body}

\* What the requests with this body were served, in the order of service.
ServedTo(body) == SelectSeq(served, LAMBDA e : e.signature = <<"GET", "/x", body>>)

\* C5: repeated identical requests with K recorded candidates are served the
\* candidates in increasing sequence_number order, starting with the lowest and
\* returning to the lowest after the highest, and the cursor kept for the request
\* signature is the number last served and never exceeds the highest candidate
\* sequence_number.
C5_CyclesInSequenceOrder ==
    \A body \in RequestBodies :
        LET cands == CandidatesOf(body)
            hist == ServedTo(body)
            K == Cardinality(cands)
            signature == <<"GET", "/x", body>>
        IN  /\ \A i \in 1..Len(hist) :
                  /\ hist[i].interaction \in cands
                  /\ Cardinality({c \in cands : c.sequence_number < hist[i].interaction.sequence_number})
                        = (i - 1) % K
            /\ signature \in DOMAIN sequenceState =>
                  /\ Len(hist) > 0
                  /\ sequenceState[signature] = hist[Len(hist)].interaction.sequence_number
                  /\ \E c \in cands : sequenceState[signature] <= c.sequence_number

\* A request with the two candidates numbered 1 and 3 was served three times: the
\* third service returned to the lowest candidate.
C5_Witness ==
    \E body \in RequestBodies :
        /\ {c.sequence_number : c \in CandidatesOf(body)} = {1, 3}
        /\ Len(ServedTo(body)) = 3
        /\ ServedTo(body)[3].interaction.sequence_number = 1
        /\ \E p \in Procs : h[p].pc = "found"

-----------------------------------------------------------------------------
(* The gRPC record engine: the handler of RawGRPCProxy.GetUnknownServiceHandler *)
(* and RawGRPCProxy.handleUnaryCall, one process per call.                   *)

\* google.golang.org/grpc/codes
codes == [OK |-> 0, Unknown |-> 2, NotFound |-> 5, Internal |-> 13, Unavailable |-> 14]

GrpcMethods == {"/pkg.Svc/Get", "/pkg.Svc/Watch"}

\* strings.Contains(method, pattern) for the streaming patterns; every other
\* method is taken to be unary.
isLikelyUnaryCall(method) == method # "/pkg.Svc/Watch"

\* What the call to the target ends with: a response, a connection failure (which
\* the gRPC client reports as the status Unavailable), or a status of the target.
GrpcOutcomes ==
    {[kind |-> "ok", code |-> codes.OK, body |-> <<1>>],
     [kind |-> "unreachable", code |-> codes.Unavailable, body |-> <<>>],
     [kind |-> "status", code |-> codes.NotFound, body |-> <<>>]}

\* fmt.Sprintf("grpc-%d", time.Now().UnixNano()): the reading of the clock.
GenerateRequestID(now) == <<"grpc", now>>

IdleCall ==
    [pc |-> "idle", method |-> "", upstream |-> NoResponse, caller |-> NoResponse,
     interaction |-> NoRow, record_err |-> FALSE]

\* return status.Errorf(code, ...)
GrpcReturn(hp, code) == [hp EXCEPT !.pc = "done", !.caller = [code |-> code, body |-> <<>>]]

\* The status the gRPC server sends for the error proxyRawStream returns: the
\* error wraps the status of the stream, and whether the server unwraps it depends
\* on the version of the gRPC library the program is built with.
WrappedStatusCodes(code) == {codes.Unknown, code}

\* The handler up to the return for a streaming call, and up to the call of
\* RecordInteraction for a unary call.  dial: grpc.DialContext fails; fault:
\* RecvMsg or NewStream fails.
GrpcHandle(p) ==
    /\ h[p].pc = "idle"
    /\ \E method \in GrpcMethods, dial \in BOOLEAN, fault \in BOOLEAN,
          out \in GrpcOutcomes, now \in Procs :
          LET hp == [h[p] EXCEPT !.method = method]
          IN  IF dial
                THEN /\ h' = [h EXCEPT ![p] = GrpcReturn(hp, codes.Unavailable)]
                     /\ UNCHANGED ri
              ELSE IF fault
                THEN /\ h' = [h EXCEPT ![p] = GrpcReturn(hp, codes.Internal)]
                     /\ UNCHANGED ri
              ELSE IF isLikelyUnaryCall(method)
                THEN LET interaction ==
                             Row(0, 1, GenerateRequestID(now), method, method, "q",
                                 out.code, out.body, 0, FALSE)
                     IN  /\ h' = [h EXCEPT ![p] = [hp EXCEPT !.pc = "record",
                                                              !.upstream = out,
                                                              !.interaction = interaction]]
                         /\ RecordInteraction_Call(p, interaction)
              ELSE /\ \E code \in (IF out.kind = "ok" THEN {codes.OK}
                                                     ELSE WrappedStatusCodes(out.code)) :
                         h' = [h EXCEPT ![p] = [hp EXCEPT !.pc = "done", !.upstream = out,
                                                          !.caller = [code |-> code,
                                                                      body |-> out.body]]]
                   /\ UNCHANGED ri
    /\ UNCHANGED <<sessions, interactions, stream_chunks, seq_sessions, seq_interactions,
                   wal_writer, rsc, sequenceState, served, k0, cfg, router, origin, replay, web, sse>>

GrpcRecordSelect(p) ==
    /\ h[p].pc = "record"
    /\ \E fault \in BOOLEAN : RecordInteraction_Select(p, fault)
    /\ UNCHANGED <<rsc, h, sequenceState, served, k0, cfg, router, origin, replay, web, sse>>

GrpcRecordInsert(p) ==
    /\ h[p].pc = "record"
    /\ \E fault \in BOOLEAN : RecordInteraction_Insert(p, fault)
    /\ UNCHANGED <<rsc, h, sequenceState, served, k0, cfg, router, origin, replay, web, sse>>

GrpcRecordCommit(p) ==
    /\ h[p].pc = "record"
    /\ \E fault \in BOOLEAN : RecordInteraction_Commit(p, fault)
    /\ UNCHANGED <<rsc, h, sequenceState, served, k0, cfg, router, origin, replay, web, sse>>

\* handleUnaryCall after RecordInteraction has returned: its error is only logged;
\* the error of the call is returned to the caller, or the response is sent.
\* fault: SendMsg fails.
handleUnaryCall_Return(p) ==
    /\ h[p].pc = "record"
    /\ ri[p].pc \in {"ok", "err"}
    /\ ri' = [ri EXCEPT ![p] = IdleRI]
    /\ \E fault \in BOOLEAN :
          LET hp == [h[p] EXCEPT !.record_err = (ri[p].pc = "err"),
                                 !.interaction = IF ri[p].pc = "ok" THEN ri[p].row ELSE @]
          IN  h' = [h EXCEPT ![p] =
                      IF hp.upstream.kind # "ok" THEN GrpcReturn(hp, hp.upstream.code)
                      ELSE IF fault THEN GrpcReturn(hp, codes.Internal)
                      ELSE [hp EXCEPT !.pc = "done",
                                      !.caller = [code |-> codes.OK, body |-> hp.upstream.body]]]
    /\ UNCHANGED <<sessions, interactions, stream_chunks, seq_sessions, seq_interactions,
                   wal_writer, rsc, sequenceState, served, k0, cfg, router, origin, replay, web, sse>>

InitGrpc ==
    /\ sessions = {[id |-> 1, session_name |-> "s1"]}
    /\ seq_sessions = 1
    /\ interactions = {}
    /\ seq_interactions = 0
    /\ stream_chunks = {}
    /\ wal_writer = 0
    /\ ri = [p \in Procs |-> IdleRI]
    /\ rsc = [p \in Procs |-> IdleRSC]
    /\ h = [p \in Procs |-> IdleCall]
    /\ sequenceState = <<>>
    /\ served = <<>>
    /\ k0 = [e \in Endpoints |-> 0]
    /\ cfg = NoConfig
    /\ router = NoRouter
    /\ origin = <<>>
    /\ replay = NoReplay
    /\ web = NoWeb
    /\ sse = NoReader

NextGrpc ==
    \E p \in Procs :
        \/ GrpcHandle(p)
        \/ GrpcRecordSelect(p)
        \/ GrpcRecordInsert(p)
        \/ GrpcRecordCommit(p)
        \/ handleUnaryCall_Return(p)

SpecGrpc == InitGrpc /\ [][NextGrpc]_vars

\* C6: when the call to the target fails because the target cannot be reached,
\* the caller receives the status Unavailable and no interaction is stored for
\* the call.
C6_UpstreamFailureNotStored ==
    \A p \in Procs :
        (h[p].pc = "done" /\ h[p].upstream.kind = "unreachable") =>
            /\ h[p].caller.code = 14
            /\ ~\E r \in interactions : r.id = h[p].interaction.id

-----------------------------------------------------------------------------
\* Startup and the gRPC router (src/cmd/root.go, src/server/multi_proxy_server.go,
\* src/unnamed/part_014, src/unnamed/part_013, src/unnamed/part_007).
\*
\* A regular expression is modelled by its source text.  Compile gives the
\* compiled expression or an error, and MatchString looks the text up in the
\* language of the expression over the service and method names of the model.

RouteNames == {"r1", "r2"}
ServiceNames == {"pkg.A", "pkg.B"}
MethodNames == {"Get", "Put"}
ServicePatterns == {"", "(", "A$"}
MethodPatterns == {"", "(", "Get"}
RedactPatternLists == {<<>>, <<"tok">>, <<"(">>}
NilPattern == "<nil>"
NoRoute == [Name |-> "<nil>"]

\* regexp.Compile: "(" is the one invalid expression of the model.
Compile(expr) ==
    IF expr = "(" THEN [err |-> TRUE, pattern |-> NilPattern]
    ELSE [err |-> FALSE, pattern |-> expr]

\* (*Regexp).MatchString on the names of the model (unanchored search).
MatchString(pattern, str) ==
    CASE pattern = "A$"  -> str = "pkg.A"
      [] pattern = "Get" -> str = "Get"
      [] pattern = "tok" -> str = "tok"
      [] OTHER -> FALSE

\* The configurations a user can write: one or two gRPC routes (or none), each
\* with its patterns and its default flag, and the redact patterns.
ProxyConfigs ==
    [ServicePattern : ServicePatterns, MethodPattern : MethodPatterns, IsDefault : BOOLEAN]

Configs ==
    {[enable_streaming |-> FALSE, Proxies |-> px, RedactPatterns |-> rp] :
        px \in UNION {[names -> ProxyConfigs] : names \in SUBSET RouteNames},
        rp \in RedactPatternLists}

\* Config.Validate, on the fields the model varies (mode, ports, targets and
\* session names are valid in every configuration of the model): no regular
\* expression is looked at.
Validate(c) == IF DOMAIN c.Proxies = {} THEN "at least one proxy must be configured" ELSE "nil"

\* The orders in which a Go map of the given keys can be iterated.
MapOrders(keys) ==
    {o \in [1..Cardinality(keys) -> keys] : \A i, j \in DOMAIN o : i # j => o[i] # o[j]}

\* What &proxyConfig points to once the loop is over: the iteration's own copy
\* when the loop variable is per iteration, the last element otherwise (the
\* language version of the build decides).
LoopVarSemantics == {"per-iteration", "shared"}
ConfigPointee(order, i, loopvar) ==
    IF loopvar = "shared" THEN order[Len(order)] ELSE order[i]

\* The body of NewGRPCRouter's loop for the i-th iterated route: an invalid
\* pattern is logged and the route keeps a nil pattern.
NewGRPCRoute(routeConfigs, order, i, loopvar) ==
    LET proxyConfig == routeConfigs[order[i]]
        sp == Compile(proxyConfig.ServicePattern)
        mp == Compile(proxyConfig.MethodPattern)
    IN  [Name |-> order[i],
         Config |-> ConfigPointee(order, i, loopvar),
         ServicePattern |-> IF proxyConfig.ServicePattern # "" /\ ~sp.err THEN sp.pattern ELSE NilPattern,
         MethodPattern |-> IF proxyConfig.MethodPattern # "" /\ ~mp.err THEN mp.pattern ELSE NilPattern]

RECURSIVE NewGRPCRouter_Loop(_, _, _, _, _)
NewGRPCRouter_Loop(routeConfigs, order, i, loopvar, r) ==
    IF i > Len(order) THEN r
    ELSE LET route == NewGRPCRoute(routeConfigs, order, i, loopvar)
         IN  NewGRPCRouter_Loop(routeConfigs, order, i + 1, loopvar,
                 IF routeConfigs[order[i]].IsDefault
                 THEN [r EXCEPT !.defaultRoute = route]
                 ELSE [r EXCEPT !.routes = Append(@, route)])

\* NewGRPCRouter returns an error only when GetOrCreateSession fails; the
\* store of this specification does not fail.
NewGRPCRouter(routeConfigs, order, loopvar) ==
    NewGRPCRouter_Loop(routeConfigs, order, 1, loopvar,
                       [routes |-> <<>>, defaultRoute |-> NoRoute])

\* NewRESTHandler: the entry of a pattern that does not compile stays nil.
NewRESTHandler(redactPatterns) ==
    [i \in DOMAIN redactPatterns |-> Compile(redactPatterns[i]).pattern]

\* routeMatches: only the patterns the route holds are tested.
routeMatches(route, serviceName, methodName) ==
    /\ ~(route.ServicePattern # NilPattern /\ ~MatchString(route.ServicePattern, serviceName))
    /\ ~(route.MethodPattern # NilPattern /\ ~MatchString(route.MethodPattern, methodName))

findRoute(r, serviceName, methodName) ==
    LET hits == {i \in DOMAIN r.routes : routeMatches(r.routes[i], serviceName, methodName)}
    IN  IF hits # {} THEN r.routes[SetMin(hits)]
        ELSE r.defaultRoute

\* redactSensitiveData: ReplaceAllString on a nil pattern dereferences nil.
redactSensitiveData(patterns) ==
    IF \E i \in DOMAIN patterns : patterns[i] = NilPattern THEN "panic" ELSE "redacted"

\* A full method name, given by its parts between the slashes.
FullMethodNames ==
    {<<s, m>> : s \in ServiceNames, m \in MethodNames} \cup {<<"pkg.A", "Get", "x">>}

\* The status the router itself returns; OK stands for a call the router
\* passed on to a route's engine.
grpcCodes == [OK |-> 0, InvalidArgument |-> 3, Unimplemented |-> 12, Internal |-> 13]

IdleRouted == [pc |-> "idle"]

\* runProxy: Validate, then NewMultiProxyServer builds the router and the
\* handler; log.Fatal ends the process on an error.
runProxy ==
    /\ router.state = "none"
    /\ IF Validate(cfg) # "nil"
       THEN router' = [state |-> "exited"]
       ELSE \E order \in MapOrders(DOMAIN cfg.Proxies), loopvar \in LoopVarSemantics :
                LET r == NewGRPCRouter(cfg.Proxies, order, loopvar)
                IN  router' = [state |-> "serving",
                               routes |-> r.routes,
                               defaultRoute |-> r.defaultRoute,
                               redactPatterns |-> NewRESTHandler(cfg.RedactPatterns)]
    /\ UNCHANGED <<sessions, interactions, stream_chunks, seq_sessions, seq_interactions,
                   wal_writer, ri, rsc, h, sequenceState, served, k0, cfg, origin, replay, web, sse>>

\* The handler of GetUnknownServiceHandler, for one call.
RouterHandle(p) ==
    /\ router.state = "serving"
    /\ h[p].pc = "idle"
    /\ \E ok \in BOOLEAN, parts \in FullMethodNames :
         h' = [h EXCEPT ![p] =
            IF ~ok
            THEN [pc |-> "done", kind |-> "grpc", parts |-> parts, ok |-> ok,
                  code |-> grpcCodes.Internal, route |-> NoRoute]
            ELSE IF Len(parts) # 2
            THEN [pc |-> "done", kind |-> "grpc", parts |-> parts, ok |-> ok,
                  code |-> grpcCodes.InvalidArgument, route |-> NoRoute]
            ELSE LET route == findRoute(router, parts[1], parts[2])
                 IN  IF route = NoRoute
                     THEN [pc |-> "done", kind |-> "grpc", parts |-> parts, ok |-> ok,
                           code |-> grpcCodes.Unimplemented, route |-> NoRoute]
                     ELSE [pc |-> "done", kind |-> "grpc", parts |-> parts, ok |-> ok,
                           code |-> grpcCodes.OK, route |-> route]]
    /\ UNCHANGED <<sessions, interactions, stream_chunks, seq_sessions, seq_interactions,
                   wal_writer, ri, rsc, sequenceState, served, k0, cfg, router, origin, replay, web, sse>>

\* An HTTP request through the REST handler: ExtractRequest redacts the headers.
RestHandle(p) ==
    /\ router.state = "serving"
    /\ h[p].pc = "idle"
    /\ h' = [h EXCEPT ![p] = [pc |-> "done", kind |-> "http",
                               outcome |-> redactSensitiveData(router.redactPatterns)]]
    /\ UNCHANGED <<sessions, interactions, stream_chunks, seq_sessions, seq_interactions,
                   wal_writer, ri, rsc, sequenceState, served, k0, cfg, router, origin, replay, web, sse>>

InitRouter ==
    /\ sessions = {}
    /\ interactions = {}
    /\ stream_chunks = {}
    /\ seq_sessions = 0
    /\ seq_interactions = 0
    /\ wal_writer = 0
    /\ ri = [p \in Procs |-> IdleRI]
    /\ rsc = [p \in Procs |-> IdleRSC]
    /\ h = [p \in Procs |-> IdleRouted]
    /\ sequenceState = <<>>
    /\ served = <<>>
    /\ k0 = [e \in Endpoints |-> 0]
    /\ cfg \in Configs
    /\ router = NoRouter
    /\ origin = <<>>
    /\ replay = NoReplay
    /\ web = NoWeb
    /\ sse = NoReader

NextRouter ==
    \/ runProxy
    \/ \E p \in Procs : RouterHandle(p)
    \/ \E p \in Procs : RestHandle(p)

SpecRouter == InitRouter /\ [][NextRouter]_vars

\* A configured pattern matches a name when it compiles and the name is in its
\* language; a route's configured patterns are the non-empty ones.
PatternMatches(expr, str) ==
    expr = "" \/ (~Compile(expr).err /\ MatchString(Compile(expr).pattern, str))

ConfiguredPatternsMatch(proxyConfig, serviceName, methodName) ==
    /\ PatternMatches(proxyConfig.ServicePattern, serviceName)
    /\ PatternMatches(proxyConfig.MethodPattern, methodName)

HasInvalidRegex(c) ==
    \/ \E n \in DOMAIN c.Proxies :
          Compile(c.Proxies[n].ServicePattern).err \/ Compile(c.Proxies[n].MethodPattern).err
    \/ \E i \in DOMAIN c.RedactPatterns : Compile(c.RedactPatterns[i]).err

RoutedCall(p) ==
    h[p].pc = "done" /\ h[p].kind = "grpc" /\ h[p].ok /\ Len(h[p].parts) = 2

\* C11: every gRPC call is dispatched to the first non-default route all of
\* whose configured patterns match the call's service and method; when no
\* non-default route matches, to the default route if there is one; otherwise
\* the call ends with Unimplemented and no engine is dispatched.
C11_FirstMatchingRoute ==
    \A p \in Procs :
        RoutedCall(p) =>
            LET hits == {i \in DOMAIN router.routes :
                            ConfiguredPatternsMatch(cfg.Proxies[router.routes[i].Name],
                                                    h[p].parts[1], h[p].parts[2])}
            IN  IF hits # {}
                THEN h[p].route = router.routes[SetMin(hits)]
                ELSE IF router.defaultRoute # NoRoute
                     THEN h[p].route = router.defaultRoute
                     ELSE h[p].route = NoRoute /\ h[p].code = grpcCodes.Unimplemented

\* C12: a configuration with an invalid regular expression (a route's service
\* or method pattern, or a redact pattern) is rejected at startup: no router or
\* handler is built from it and no traffic is served with it.
C12_InvalidRegexRejected ==
    HasInvalidRegex(cfg) =>
        /\ router.state # "serving"
        /\ \A p \in Procs : h[p].pc = "idle"

-----------------------------------------------------------------------------
\* Record, then mock: one HTTP route records the exchanges of the request
\* GET /x with body "q", the proxy is restarted in mock mode on the same store,
\* and the same request is served from the recordings
\* (src/unnamed/part_015, src/unnamed/part_013, src/mock/grpc_mock_router.go).
\*
\* An http.Header maps a name to the sequence of its values.  A header value is
\* a sequence of pieces of text, so that joining values is a concatenation.

CookieLists == {<<>>, << <<"a=1">> >>, << <<"a=1">>, <<"b=2">> >>}

UpstreamHeader(ct, cookies) ==
    [k \in {"Content-Type"} \cup (IF cookies = <<>> THEN {} ELSE {"Set-Cookie"}) |->
        IF k = "Content-Type" THEN << <<ct>> >> ELSE cookies]

\* The responses an upstream returns to the forwarded request.
UpstreamResponses ==
    UNION {{[kind |-> "response", status |-> st, content_type |-> ct,
             headers |-> UpstreamHeader(ct, ck), body |-> b] :
               st \in StatusUpstream, b \in Bodies(ct), ck \in CookieLists} : ct \in ContentTypes}

RECURSIVE Join(_)
\* strings.Join(values, ", ")
Join(values) ==
    IF Len(values) = 0 THEN <<>>
    ELSE IF Len(values) = 1 THEN values[1]
    ELSE values[1] \o <<", ">> \o Join(Tail(values))

\* headers[key] = strings.Join(values, ", "), marshalled to JSON.  The engines
\* are built with an empty list of redact patterns, which changes nothing.
SerializeHeaders(header) == [k \in DOMAIN header |-> Join(header[k])]

\* RESTHandler.ExtractResponse
ExtractResponse(resp) ==
    [status |-> resp.status, headers |-> SerializeHeaders(resp.headers), body |-> resp.body]

\* The interaction as handleRequest (or handleStreamingResponse) hands it to
\* RecordInteraction, and as the store gives it the next id and sequence number.
RecordedInteraction(resp, streaming) ==
    [f \in DOMAIN Row(0, 0, 0, "", "", "", 0, <<>>, 0, FALSE) \cup {"response_headers"} |->
        IF f = "response_headers" THEN ExtractResponse(resp).headers
        ELSE Row(seq_interactions + 1, 1, seq_interactions + 1, "GET", "/x", "q",
                 ExtractResponse(resp).status,
                 IF streaming THEN <<>> ELSE ExtractResponse(resp).body,
                 getNextSequenceNumber(1, "/x"), streaming)[f]]

\* What the client of the record engine or of the mock engine has been sent.
NoReply == [status |-> 0, headers |-> <<>>, body |-> <<>>]

\* RESTHandler.CopyResponse with a connected client: every value is added.
CopyResponseWithHeaders(resp) ==
    [status |-> resp.status, headers |-> resp.headers, body |-> resp.body]

\* Database.GetStreamChunks: ORDER BY chunk_index.
GetStreamChunks(id) ==
    [i \in 1..Cardinality(StoredFor(id)) |->
        CHOOSE c \in StoredFor(id) :
            Cardinality({d \in StoredFor(id) : d.chunk_index < c.chunk_index}) = i - 1]

\* RESTHandler.ReplayStreamingResponse(w, chunks, timing): it is given the
\* chunks and no interaction, so what it sends before the chunks cannot depend
\* on the recorded status and headers: the headers of an event stream and the
\* status of the first write.
ReplayStreamingResponse(chunks) ==
    [status |-> 200,
     headers |-> UpstreamHeader("text/event-stream", <<>>),
     body |-> [i \in DOMAIN chunks |-> chunks[i].data]]

\* MockEngine.sendMockResponse: w.Header().Set(key, value) for every recorded
\* header, the recorded status, the recorded body.
sendMockResponse(interaction) ==
    IF interaction.is_streaming
      THEN ReplayStreamingResponse(GetStreamChunks(interaction.id))
      ELSE [status |-> interaction.response_status,
            headers |-> [k \in DOMAIN interaction.response_headers |->
                            <<interaction.response_headers[k]>>],
            body |-> interaction.response_body]

\* The not_found_response a user can configure; the first is the default.
NotFoundResponses ==
    {[status |-> 404, body |-> <<"Recording not found">>],
     [status |-> 410, body |-> <<"gone">>]}

\* MockEngine.sendNotFoundResponse
sendNotFoundResponse ==
    [status |-> 404,
     headers |-> UpstreamHeader("application/json", <<>>),
     body |-> <<"Recording not found">>]

IdleExchange == [pc |-> "idle", interaction |-> NoRow, client |-> NoReply]

\* ProxyEngine.handleRequest for a request that the upstream answers and whose
\* client stays connected.  stored: RecordInteraction (and RecordStreamChunks)
\* succeed; if not, nothing of the exchange is in the store.
RoundTripRecord(p) ==
    /\ cfg.Mode = "record"
    /\ h[p].pc = "idle"
    /\ wal_writer = 0
    /\ \E resp \in UpstreamResponses, stored \in BOOLEAN :
         LET streaming == cfg.enable_streaming /\ IsStreamingResponse(resp)
             interaction == RecordedInteraction(resp, streaming)
         IN  /\ h' = [h EXCEPT ![p] =
                      [pc |-> "done",
                       interaction |-> IF stored THEN interaction ELSE NoRow,
                       client |-> IF stored \/ ~streaming
                                  THEN CopyResponseWithHeaders(resp)
                                  ELSE [status |-> StatusInternalServerError,
                                        headers |-> <<>>,
                                        body |-> <<"Internal Server Error">>]]]
             /\ IF stored
                THEN /\ interactions' = interactions \cup {interaction}
                     /\ seq_interactions' = seq_interactions + 1
                     /\ stream_chunks' = stream_chunks \cup
                            (IF streaming
                             THEN {StreamChunks(interaction.id, resp.body)[i] : i \in DOMAIN resp.body}
                             ELSE {})
                     /\ origin' = [i \in DOMAIN origin \cup {interaction.id} |->
                                      IF i = interaction.id THEN resp ELSE origin[i]]
                ELSE UNCHANGED <<interactions, seq_interactions, stream_chunks, origin, replay, web, sse>>
    /\ UNCHANGED <<sessions, seq_sessions, wal_writer, ri, rsc, sequenceState, served,
                   k0, cfg, router, replay, web, sse>>

\* The proxy is stopped and started again in mock mode on the same database.
RestartInMockMode ==
    /\ cfg.Mode = "record"
    /\ cfg' = [cfg EXCEPT !.Mode = "mock"]
    /\ h' = [p \in Procs |-> IdleExchange]
    /\ UNCHANGED <<sessions, interactions, stream_chunks, seq_sessions, seq_interactions,
                   wal_writer, ri, rsc, sequenceState, served, k0, router, origin, replay, web, sse>>

\* MockEngine.handleRequest for the same request.
RoundTripServe(p) ==
    /\ cfg.Mode = "mock"
    /\ h[p].pc \in {"idle", "done"}
    /\ Len(served) < MaxServed
    /\ LET r == [method |-> "GET", endpoint |-> "/x", body |-> "q"]
           matching == filterMatchingInteractions(FindMatchingInteractions(1, r.method, r.endpoint), r)
           signature == getRequestSignature(r)
       IN  IF Len(matching) = 0
           THEN /\ h' = [h EXCEPT ![p] = [pc |-> "done", interaction |-> NoRow,
                                          client |-> sendNotFoundResponse]]
                /\ served' = Append(served, [signature |-> signature, interaction |-> NoRow])
                /\ UNCHANGED sequenceState
           ELSE LET selected == matching[nextInSequence(matching, currentSequence(signature))]
                IN  /\ sequenceState' =
                          [sg \in DOMAIN sequenceState \cup {signature} |->
                              IF sg = signature THEN selected.sequence_number
                              ELSE sequenceState[sg]]
                    /\ served' = Append(served, [signature |-> signature, interaction |-> selected])
                    /\ h' = [h EXCEPT ![p] = [pc |-> "done", interaction |-> selected,
                                              client |-> sendMockResponse(selected)]]
    /\ UNCHANGED <<sessions, interactions, stream_chunks, seq_sessions, seq_interactions,
                   wal_writer, ri, rsc, k0, cfg, router, origin, replay, web, sse>>

InitRoundTrip ==
    /\ sessions = {[id |-> 1, session_name |-> "s1"]}
    /\ interactions = {}
    /\ stream_chunks = {}
    /\ seq_sessions = 1
    /\ seq_interactions = 0
    /\ wal_writer = 0
    /\ ri = [p \in Procs |-> IdleRI]
    /\ rsc = [p \in Procs |-> IdleRSC]
    /\ h = [p \in Procs |-> IdleExchange]
    /\ sequenceState = <<>>
    /\ served = <<>>
    /\ k0 = [e \in Endpoints |-> 0]
    /\ cfg \in {[enable_streaming |-> b, Mode |-> "record", NotFoundResponse |-> nf] :
                   b \in BOOLEAN, nf \in NotFoundResponses}
    /\ router = NoRouter
    /\ origin = <<>>
    /\ replay = NoReplay
    /\ web = NoWeb
    /\ sse = NoReader

NextRoundTrip ==
    \/ \E p \in Procs : RoundTripRecord(p)
    \/ RestartInMockMode
    \/ \E p \in Procs : RoundTripServe(p)

SpecRoundTrip == InitRoundTrip /\ [][NextRoundTrip]_vars

ServedFromRecording(p) ==
    cfg.Mode = "mock" /\ h[p].pc = "done" /\ h[p].interaction # NoRow

\* C13: an identical request served in mock mode from a recording receives the
\* status code, the response headers and the body that the upstream returned
\* when the request was recorded.
C13_RoundTripReproduces ==
    \A p \in Procs :
        ServedFromRecording(p) =>
            /\ h[p].client.status = origin[h[p].interaction.id].status
            /\ h[p].client.headers = origin[h[p].interaction.id].headers
            /\ h[p].client.body = origin[h[p].interaction.id].body

\* C14: when no recorded candidate matches a mock request, the status and the
\* body of the response are those of the configured not_found_response.
C14_NotFoundAsConfigured ==
    \A p \in Procs :
        (cfg.Mode = "mock" /\ h[p].pc = "done" /\ h[p].interaction = NoRow) =>
            /\ h[p].client.status = cfg.NotFoundResponse.status
            /\ h[p].client.body = cfg.NotFoundResponse.body

-----------------------------------------------------------------------------
\* The fine match of the mock engine (src/mock/grpc_mock_router.go 429-738):
\* one recorded interaction, and requests matched against it one after another.
\*
\* A decoded JSON value carries its Go type: a string, a float64, a
\* []interface{} or a map[string]interface{}.  A request body is a JSON value,
\* a text that is not JSON, or empty.

MaxRequests == 2

JStr(s) == [t |-> "str", v |-> s]
JNum(n) == [t |-> "num", v |-> n]
JArr(a) == [t |-> "arr", v |-> a]
JObj(f) == [t |-> "obj", v |-> f]
RawBody(s) == [t |-> "raw", v |-> s]
EmptyBody == [t |-> "empty", v |-> ""]

\* "U1" and "U2" stand for two strings of the canonical UUID form; the other
\* strings are not of that form.
UUIDs == {"U1", "U2"}
IdStrings == {"U1", "U2", "A", "UUID_PLACEHOLDER"}
NameStrings == {"A", "B"}

\* uuidPattern.MatchString(s)
isUUID(s) == s \in UUIDs

\* This variant leaves a UUID as it is.
normalizeStringValue_Identity(s) == s

normalizeStringValue(s) == IF isUUID(s) THEN "UUID_PLACEHOLDER" ELSE s

\* Bodies with one string that may be a UUID: {"id": x, "name": y}, the
\* top-level array [x], and the text x.
IdBodies ==
    {JObj([k \in {"id", "name"} |-> IF k = "id" THEN JStr(x) ELSE JStr(y)]) :
        x \in IdStrings, y \in NameStrings}
      \cup {JArr(<<JStr(x)>>) : x \in IdStrings}
      \cup {RawBody(x) : x \in IdStrings}

\* {"functionResponse": {"name": n, "response": {"result": r}}}
FunctionResponse(n, r) ==
    JObj([k \in {"functionResponse"} |->
        JObj([f \in {"name", "response"} |->
            IF f = "name" THEN JStr(n)
            ELSE JObj([g \in {"result"} |-> JStr(r)])])])

FunctionResponseBodies == {FunctionResponse(n, r) : n \in NameStrings, r \in NameStrings}

\* {"items": [...]} with up to two elements among "A", "1" and 1.
ArrayElements == {JStr("A"), JStr("1"), JNum(1)}
ArrayBodies ==
    {JObj([k \in {"items"} |-> JArr(a)]) :
        a \in UNION {[1..n -> ArrayElements] : n \in 0..2}}

\* Request headers, already joined per name.
HeaderMaps ==
    {[k \in {"Content-Type", "Date", "X-Request-Id"} |->
        IF k = "Content-Type" THEN ct ELSE IF k = "Date" THEN d ELSE id] :
        ct \in {"application/json", "text/plain"}, d \in {"d1", "d2"}, id \in {"i1", "i2"}}

PlainHeaders == CHOOSE hd \in HeaderMaps :
    hd["Content-Type"] = "application/json" /\ hd["Date"] = "d1" /\ hd["X-Request-Id"] = "i1"

\* The requests of one family vary the same part of the request.
RequestFamilies ==
    {{[headers |-> PlainHeaders, body |-> b] : b \in IdBodies},
     {[headers |-> PlainHeaders, body |-> b] : b \in FunctionResponseBodies},
     {[headers |-> PlainHeaders, body |-> b] : b \in ArrayBodies},
     {[headers |-> hd, body |-> EmptyBody] : hd \in HeaderMaps}}

MatchingStrategies == {"exact", "fuzzy", "fuzzy-unordered"}
IgnoreFieldLists == {{}, {"name", "X-Request-Id"}}

\* m.shouldIgnoreField(fieldName)
shouldIgnoreField(fieldName) ==
    /\ cfg.MatchingStrategy \in {"fuzzy", "fuzzy-unordered"}
    /\ fieldName \in cfg.FuzzyIgnoreFields

\* fmt.Sprintf("%v", value) for a float64, a string, and anything else.
SprintfV(value) ==
    IF value.t = "num" THEN (IF value.v = 1 THEN "1" ELSE "n")
    ELSE IF value.t = "str" THEN value.v
    ELSE "composite"

RECURSIVE fuzzyMatchJSONValue(_, _, _)
RECURSIVE fuzzyMatchArrayUnordered_From(_, _, _, _, _)

\* The loop of fuzzyMatchArrayUnordered from recorded element i on: the element
\* takes the first current element that is not taken and that it matches.
fuzzyMatchArrayUnordered_From(recorded, current, i, matched, unordered) ==
    IF i > Len(recorded) THEN TRUE
    ELSE LET free == {j \in DOMAIN current :
                         j \notin matched /\ fuzzyMatchJSONValue(recorded[i], current[j], unordered)}
         IN  IF free = {} THEN FALSE
             ELSE fuzzyMatchArrayUnordered_From(recorded, current, i + 1,
                                                matched \cup {SetMin(free)}, unordered)

fuzzyMatchArrayUnordered(recorded, current, unordered) ==
    fuzzyMatchArrayUnordered_From(recorded, current, 1, {}, unordered)

\* fuzzyMatchJSONValue with ignoreValues = false, the only value it is called with.
fuzzyMatchJSONValue(recorded, current, unordered) ==
    CASE recorded.t = "obj" ->
            /\ current.t = "obj"
            /\ Cardinality(DOMAIN recorded.v) = Cardinality(DOMAIN current.v)
            /\ \A key \in DOMAIN recorded.v :
                  /\ key \in DOMAIN current.v
                  /\ \/ shouldIgnoreField(key)
                     \/ fuzzyMatchJSONValue(recorded.v[key], current.v[key], unordered)
      [] recorded.t = "arr" ->
            /\ current.t = "arr"
            /\ Len(recorded.v) = Len(current.v)
            /\ IF unordered
               THEN fuzzyMatchArrayUnordered(recorded.v, current.v, unordered)
               ELSE \A i \in DOMAIN recorded.v :
                        fuzzyMatchJSONValue(recorded.v[i], current.v[i], unordered)
      [] recorded.t = "str" ->
            /\ current.t = "str"
            /\ normalizeStringValue(recorded.v) = normalizeStringValue(current.v)
      [] OTHER -> SprintfV(recorded) = SprintfV(current)

\* fuzzyMatchJSON
fuzzyMatchJSON(recorded, current) ==
    fuzzyMatchJSONValue(recorded, current, cfg.MatchingStrategy = "fuzzy-unordered")

\* json.Unmarshal(body, &map[string]interface{}) returns no error.
UnmarshalsToMap(body) == body.t = "obj"

\* fuzzyMatchBody
fuzzyMatchBody(recordedBody, currentBody) ==
    IF recordedBody = EmptyBody /\ currentBody = EmptyBody THEN TRUE
    ELSE IF UnmarshalsToMap(recordedBody) /\ UnmarshalsToMap(currentBody)
         THEN fuzzyMatchJSON(recordedBody, currentBody)
         ELSE recordedBody = currentBody

\* matchesBody
matchesBody(recordedBody, r) ==
    IF cfg.MatchingStrategy \in {"fuzzy", "fuzzy-unordered"}
    THEN fuzzyMatchBody(recordedBody, r.body)
    ELSE recordedBody = r.body

dynamicHeaders == {"Content-Length", "Content-Md5", "Date", "If-None-Match", "If-Modified-Since"}

\* delete(headers, header) for every header of the list
DeleteHeaders(headers, names) == [k \in DOMAIN headers \ names |-> headers[k]]

\* matchesHeaders; the engine's redact patterns are empty.
matchesHeaders(recordedHeaders, requestHeaders) ==
    IF cfg.MatchingStrategy \in {"fuzzy", "fuzzy-unordered"}
    THEN DeleteHeaders(recordedHeaders, dynamicHeaders) = DeleteHeaders(requestHeaders, dynamicHeaders)
    ELSE recordedHeaders = requestHeaders

\* matchesRequestContent under the configured strategy.
matchesContent(interaction, r) ==
    /\ matchesHeaders(interaction.request_headers, r.headers)
    /\ matchesBody(interaction.request, r)

\* The recorded interaction of the session.
RecordedRequest(r) ==
    [f \in DOMAIN Row(0, 0, 0, "", "", "", 0, <<>>, 0, FALSE) \cup {"request_headers"} |->
        IF f = "request_headers" THEN r.headers
        ELSE Row(1, 1, 1, "POST", "/x", r.body, 200, <<1>>, 1, FALSE)[f]]

TheRecorded == CHOOSE i \in interactions : TRUE

FamilyOf(r) == CHOOSE fam \in RequestFamilies : r \in fam

\* MockEngine.handleRequest up to the filter, for a request of the family of
\* the recording: served keeps the request and whether the recording matched.
FuzzyRequest ==
    /\ Len(served) < MaxRequests
    /\ \E r \in FamilyOf([headers |-> TheRecorded.request_headers, body |-> TheRecorded.request]) :
          served' = Append(served, [request |-> r, matched |-> matchesContent(TheRecorded, r)])
    /\ UNCHANGED <<sessions, interactions, stream_chunks, seq_sessions, seq_interactions,
                   wal_writer, ri, rsc, h, sequenceState, k0, cfg, router, origin, replay, web, sse>>

InitFuzzy ==
    /\ sessions = {[id |-> 1, session_name |-> "s1"]}
    /\ \E fam \in RequestFamilies : \E r \in fam : interactions = {RecordedRequest(r)}
    /\ stream_chunks = {}
    /\ seq_sessions = 1
    /\ seq_interactions = 1
    /\ wal_writer = 0
    /\ ri = [p \in Procs |-> IdleRI]
    /\ rsc = [p \in Procs |-> IdleRSC]
    /\ h = [p \in Procs |-> IdleMock]
    /\ sequenceState = <<>>
    /\ served = <<>>
    /\ k0 = [e \in Endpoints |-> 0]
    /\ cfg \in {[enable_streaming |-> FALSE, MatchingStrategy |-> ms, FuzzyIgnoreFields |-> ig] :
                   ms \in MatchingStrategies, ig \in IgnoreFieldLists}
    /\ router = NoRouter
    /\ origin = <<>>
    /\ replay = NoReplay
    /\ web = NoWeb
    /\ sse = NoReader

NextFuzzy == FuzzyRequest

SpecFuzzy == InitFuzzy /\ [][NextFuzzy]_vars

FuzzyStrategy == cfg.MatchingStrategy \in {"fuzzy", "fuzzy-unordered"}

\* The string of a body of IdBodies that may be a UUID, and its other string.
IdOf(b) ==
    CASE b.t = "obj" -> b.v["id"].v
      [] b.t = "arr" -> b.v[1].v
      [] OTHER -> b.v

NameOf(b) == IF b.t = "obj" THEN b.v["name"].v ELSE ""

\* Body b is body a with its UUID replaced by a UUID.
UUIDReplaced(a, b) ==
    /\ a \in IdBodies /\ b \in IdBodies /\ a.t = b.t
    /\ NameOf(a) = NameOf(b)
    /\ isUUID(IdOf(a)) /\ isUUID(IdOf(b))

\* Body b is body a with the string under key changed, a string that was not a UUID.
NonUUIDChanged(a, b, key) ==
    /\ a \in IdBodies /\ b \in IdBodies /\ a.t = b.t
    /\ \/ key = "name" /\ IdOf(a) = IdOf(b) /\ NameOf(a) # NameOf(b)
       \/ key = "id" /\ NameOf(a) = NameOf(b) /\ ~isUUID(IdOf(a)) /\ IdOf(a) # IdOf(b)

FunctionResponseName(b) == b.v["functionResponse"].v["name"].v

\* C16: under fuzzy matching with no ignore fields, two bodies that differ only
\* in the contents of a functionResponse's response object match, and bodies
\* that differ in the functionResponse name do not match.
C16_FunctionResponseContentIgnored ==
    (cfg.MatchingStrategy = "fuzzy" /\ cfg.FuzzyIgnoreFields = {}) =>
        \A i \in DOMAIN served :
            (/\ TheRecorded.request \in FunctionResponseBodies
             /\ served[i].request.body \in FunctionResponseBodies) =>
                served[i].matched =
                    (FunctionResponseName(TheRecorded.request)
                         = FunctionResponseName(served[i].request.body))

\* C17: under the fuzzy strategies the headers named in the configured ignore
\* fields are removed from the recorded and from the current headers before the
\* comparison: header sets that differ only in those headers match.
C17_IgnoredHeadersRemoved ==
    FuzzyStrategy =>
        \A i \in DOMAIN served :
            (/\ served[i].request.body = TheRecorded.request
             /\ DeleteHeaders(TheRecorded.request_headers, cfg.FuzzyIgnoreFields)
                  = DeleteHeaders(served[i].request.headers, cfg.FuzzyIgnoreFields))
                => served[i].matched

\* The one-to-one pairings of the elements of two arrays of the same length.
Pairings(n) == {pi \in [1..n -> 1..n] : \A a, b \in 1..n : a # b => pi[a] # pi[b]}

\* C18: under fuzzy-unordered matching a recorded array matches a current array
\* exactly when they have the same length and some one-to-one pairing of the
\* recorded with the current elements has every pair matching.
C18_UnorderedIsBipartite ==
    cfg.MatchingStrategy = "fuzzy-unordered" =>
        \A i \in DOMAIN served :
            (/\ TheRecorded.request \in ArrayBodies
             /\ served[i].request.body \in ArrayBodies) =>
                LET rec == TheRecorded.request.v["items"].v
                    cur == served[i].request.body.v["items"].v
                IN  served[i].matched =
                        (/\ Len(rec) = Len(cur)
                         /\ \E pi \in Pairings(Len(rec)) :
                               \A k \in DOMAIN rec : fuzzyMatchJSONValue(rec[k], cur[pi[k]], TRUE))

-----------------------------------------------------------------------------
(* The session lifecycle under concurrent callers.  GetOrCreateSession and   *)
(* ClearSession look the session up with GetSession before their write, and *)
(* the sessions table has no UNIQUE constraint on session_name.              *)

IdleCaller == [pc |-> "idle"]

\* CreateSession: INSERT INTO sessions (session_name, description); the id is
\* the AUTOINCREMENT LastInsertId.
CreateSession(name) ==
    /\ wal_writer = 0
    /\ sessions' = sessions \cup {[id |-> seq_sessions + 1, session_name |-> name]}
    /\ seq_sessions' = seq_sessions + 1

\* The transaction of ClearSession, run with the id GetSession returned.
ClearSession_KeepsChunks(sid) ==
    /\ wal_writer = 0
    /\ stream_chunks' = stream_chunks
    /\ interactions' = {r \in interactions : r.session_id # sid}
    /\ sessions' = {s \in sessions : s.id # sid}

ClearSession_Delete(sid) ==
    /\ wal_writer = 0
    /\ stream_chunks' = {c \in stream_chunks : c.interaction_id \notin
                            {r.id : r \in {x \in interactions : x.session_id = sid}}}
    /\ interactions' = {r \in interactions : r.session_id # sid}
    /\ sessions' = {s \in sessions : s.id # sid}

\* GetOrCreateSession, first half: GetSession.
SessionGetOrCreate_Get(p) ==
    /\ h[p] = IdleCaller
    /\ \E name \in SessionNames :
          h' = [h EXCEPT ![p] =
                  IF GetSession(name) # 0
                    THEN [pc |-> "got", name |-> name, id |-> GetSession(name)]
                    ELSE [pc |-> "create", name |-> name]]
    /\ UNCHANGED <<sessions, interactions, stream_chunks, seq_sessions, seq_interactions,
                   wal_writer, ri, rsc, sequenceState, served, k0, cfg, router, origin, replay, web, sse>>

\* GetOrCreateSession, second half: "session not found" leads to CreateSession.
SessionGetOrCreate_Create(p) ==
    /\ h[p].pc = "create"
    /\ seq_sessions < MaxSessions
    /\ CreateSession(h[p].name)
    /\ h' = [h EXCEPT ![p] = [pc |-> "got", name |-> h[p].name, id |-> seq_sessions + 1]]
    /\ UNCHANGED <<interactions, stream_chunks, seq_interactions,
                   wal_writer, ri, rsc, sequenceState, served, k0, cfg, router, origin, replay, web, sse>>

\* ClearSession, first half: GetSession, outside the transaction.
SessionClear_Get(p) ==
    /\ h[p] = IdleCaller
    /\ \E name \in SessionNames :
          h' = [h EXCEPT ![p] =
                  IF GetSession(name) # 0
                    THEN [pc |-> "clear_tx", name |-> name, id |-> GetSession(name)]
                    ELSE [pc |-> "not_found", name |-> name]]
    /\ UNCHANGED <<sessions, interactions, stream_chunks, seq_sessions, seq_interactions,
                   wal_writer, ri, rsc, sequenceState, served, k0, cfg, router, origin, replay, web, sse>>

\* ClearSession, second half: the three deletes and the commit.  had and
\* chunks note what the transaction removed.
SessionClear_Tx(p) ==
    /\ h[p].pc = "clear_tx"
    /\ ClearSession_Delete(h[p].id)
    /\ h' = [h EXCEPT ![p] =
               [pc |-> "clear_ok", name |-> h[p].name, id |-> h[p].id,
                had |-> Cardinality(interactions) - Cardinality(interactions'),
                chunks |-> Cardinality(stream_chunks) - Cardinality(stream_chunks')]]
    /\ UNCHANGED <<seq_sessions, seq_interactions,
                   wal_writer, ri, rsc, sequenceState, served, k0, cfg, router, origin, replay, web, sse>>

\* handleClear / ClearAllSessions: one transaction.
SessionClearAll(p) ==
    /\ h[p] = IdleCaller
    /\ ClearAllSessions
    /\ h' = [h EXCEPT ![p] = [pc |-> "clear_all_ok"]]
    /\ UNCHANGED <<rsc, sequenceState, served, k0, cfg, router, origin, replay, web, sse>>

SessionReturn(p) ==
    /\ h[p].pc \in {"got", "not_found", "clear_ok", "clear_all_ok"}
    /\ h' = [h EXCEPT ![p] = IdleCaller]
    /\ UNCHANGED <<sessions, interactions, stream_chunks, seq_sessions, seq_interactions,
                   wal_writer, ri, rsc, sequenceState, served, k0, cfg, router, origin, replay, web, sse>>

\* An import fills a session with an interaction and its chunks.
SessionImport ==
    /\ \E name \in SessionNames, n \in {0, MaxChunks} :
          /\ seq_interactions < MaxRows
          /\ GetSession(name) # 0 \/ seq_sessions < MaxSessions
          /\ ImportInteractionWithChunks(name,
                [request_id |-> seq_interactions + 1, endpoint |-> "/x",
                 sequence_number |-> 1, is_streaming |-> TRUE],
                [i \in 1..n |-> i - 1])
    /\ UNCHANGED <<rsc, h, sequenceState, served, k0, cfg, router, origin, replay, web, sse>>

InitSessions ==
    /\ sessions = {}
    /\ seq_sessions = 0
    /\ interactions = {}
    /\ seq_interactions = 0
    /\ stream_chunks = {}
    /\ wal_writer = 0
    /\ ri = [p \in Procs |-> IdleRI]
    /\ rsc = [p \in Procs |-> [pc |-> "idle"]]
    /\ h = [p \in Procs |-> IdleCaller]
    /\ sequenceState = <<>>
    /\ served = <<>>
    /\ k0 = [e \in Endpoints |-> 0]
    /\ cfg = NoConfig
    /\ router = NoRouter
    /\ origin = <<>>
    /\ replay = NoReplay
    /\ web = NoWeb
    /\ sse = NoReader

NextSessions ==
    \/ \E p \in Procs : SessionGetOrCreate_Get(p)
    \/ \E p \in Procs : SessionGetOrCreate_Create(p)
    \/ \E p \in Procs : SessionClear_Get(p)
    \/ \E p \in Procs : SessionClear_Tx(p)
    \/ \E p \in Procs : SessionClearAll(p)
    \/ \E p \in Procs : SessionReturn(p)
    \/ SessionImport

SpecSessions == InitSessions /\ [][NextSessions]_vars

-----------------------------------------------------------------------------
(* GetOrCreateSession called by one caller, one call after another: the      *)
(* engines of a configuration are built in a loop, each asking for the       *)
(* session of its proxy, and every start of the program asks again.          *)

MaxCalls == 4

ProxySessionNames == {"s1", "s2"}

\* Session tables left by earlier runs: ids never above the AUTOINCREMENT
\* counter, no two rows with one id or one name.
EarlierSessions ==
    {t \in SUBSET [id : 1..MaxSessions, session_name : ProxySessionNames] :
        \A a, b \in t : (a.id = b.id \/ a.session_name = b.session_name) => a = b}

InitGetOrCreate ==
    /\ sessions \in EarlierSessions
    /\ seq_sessions \in {n \in 0..MaxSessions : \A s \in sessions : s.id <= n}
    /\ interactions = {}
    /\ seq_interactions = 0
    /\ stream_chunks = {}
    /\ wal_writer = 0
    /\ ri = [p \in Procs |-> IdleRI]
    /\ rsc = [p \in Procs |-> [pc |-> "idle"]]
    /\ h = [p \in Procs |-> IdleCaller]
    /\ sequenceState = <<>>
    /\ served = <<>>
    /\ k0 = [e \in Endpoints |-> 0]
    /\ cfg = NoConfig
    /\ router = NoRouter
    /\ origin = <<>>
    /\ replay = NoReplay
    /\ web = NoWeb
    /\ sse = NoReader

\* One whole call of GetOrCreateSession(name, description); served keeps what
\* each call returned and whether it went through CreateSession.
GetOrCreateSession(name) ==
    /\ Len(served) < MaxCalls
    /\ sessions' = GetOrCreateSession_Table(name)
    /\ seq_sessions' = GetOrCreateSession_Seq(name)
    /\ served' = Append(served, [name |-> name, id |-> GetOrCreateSession_ID(name),
                                 created |-> GetSession(name) = 0])
    /\ UNCHANGED <<interactions, stream_chunks, seq_interactions, wal_writer, ri, rsc, h,
                   sequenceState, k0, cfg, router, origin, replay, web, sse>>

NextGetOrCreate == \E name \in ProxySessionNames : GetOrCreateSession(name)

SpecGetOrCreate == InitGetOrCreate /\ [][NextGetOrCreate]_vars

\* C20: calls of get_or_create_session(n, d) made one after another all
\* return the same session, and exactly one session row named n is stored.
C20_GetOrCreateIdempotent ==
    \A i, j \in DOMAIN served :
       served[i].name = served[j].name =>
          /\ served[i].id = served[j].id
          /\ {s \in sessions : s.session_name = served[i].name}
                = {[id |-> served[i].id, session_name |-> served[i].name]}

\* Three calls for one name, the first of which created the session.
C20_Witness ==
    /\ Len(served) >= 3
    /\ served[1].created
    /\ ~served[2].created
    /\ \A i \in 1..3 : served[i].name = served[1].name

-----------------------------------------------------------------------------
(* The replay engine: Replay loads the interactions of a session, re-issues  *)
(* each against the target, one by one or from one goroutine per interaction *)
(* behind a semaphore, and validates every response.                         *)

MaxReplayed == 2
MaxSemaphore == 1
MaxGap == 1

\* config.ReplayConfig, the fields the engine reads.
ReplayConfigs ==
    [FailFast : BOOLEAN, MaxConcurrency : 0..MaxSemaphore,
     MatchingStrategy : {"exact", "status_code"}, IgnoreTimestamps : BOOLEAN]

\* Recorded interactions of the session: a REST exchange, a gRPC call that
\* returned a message, and a gRPC call recorded with the status Unavailable.
RecordedCalls ==
    {[Protocol |-> "REST", ResponseStatus |-> 200, ResponseBody |-> "b"],
     [Protocol |-> "gRPC", ResponseStatus |-> codes.OK, ResponseBody |-> "b"],
     [Protocol |-> "gRPC", ResponseStatus |-> codes.Unavailable, ResponseBody |-> ""]}

\* What the target does with a re-issued call.  REST: client.Do fails or a
\* response arrives.  gRPC: Invoke returns a message or fails to connect (the
\* status Unavailable).
TargetOutcomes(protocol) ==
    IF protocol = "gRPC"
      THEN {[kind |-> "response", status |-> codes.OK, body |-> "b"],
            [kind |-> "response", status |-> codes.OK, body |-> "c"],
            [kind |-> "transport", status |-> codes.Unavailable, body |-> ""]}
      ELSE {[kind |-> "response", status |-> 200, body |-> "b"],
            [kind |-> "response", status |-> 200, body |-> "c"],
            [kind |-> "response", status |-> 500, body |-> "b"],
            [kind |-> "transport", status |-> 0, body |-> ""]}

\* &ReplayResult{Interaction, ExpectedStatus, ExpectedBody}; outcome notes what
\* the target did.
NewResult(idx, interaction, out) ==
    [idx |-> idx, Success |-> FALSE,
     ExpectedStatus |-> interaction.ResponseStatus,
     ExpectedBody |-> interaction.ResponseBody,
     ActualStatus |-> 0, ActualBody |-> "", Error |-> "", ValidationError |-> "",
     outcome |-> out.kind]

exactMatch(result) ==
    IF result.ActualStatus # result.ExpectedStatus THEN <<FALSE, "status mismatch">>
    ELSE IF result.ActualBody # result.ExpectedBody THEN <<FALSE, "body mismatch">>
    ELSE <<TRUE, "">>

statusCodeMatch(result) ==
    IF result.ActualStatus # result.ExpectedStatus THEN <<FALSE, "status mismatch">>
    ELSE <<TRUE, "">>

validateResponse(result) ==
    IF cfg.MatchingStrategy = "status_code" THEN statusCodeMatch(result)
    ELSE exactMatch(result)

Validated(result) ==
    [result EXCEPT !.Success = validateResponse(result)[1],
                   !.ValidationError = validateResponse(result)[2]]

replayHTTPInteraction(result, out) ==
    IF out.kind = "transport" THEN [result EXCEPT !.Error = "request failed"]
    ELSE Validated([result EXCEPT !.ActualStatus = out.status, !.ActualBody = out.body])

replayGRPCInteraction(result, out) ==
    IF out.kind # "response"
      THEN LET failed == [result EXCEPT !.ActualStatus = out.status]
           IN  IF failed.ExpectedStatus # 0 /\ failed.ActualStatus = failed.ExpectedStatus
                 THEN Validated(failed)
                 ELSE [failed EXCEPT !.Error = "gRPC call failed"]
      ELSE Validated([result EXCEPT !.ActualStatus = codes.OK, !.ActualBody = out.body])

replayInteraction(idx, interaction, out) ==
    IF interaction.Protocol = "gRPC"
      THEN replayGRPCInteraction(NewResult(idx, interaction, out), out)
      ELSE replayHTTPInteraction(NewResult(idx, interaction, out), out)

\* The timestamps of the loaded interactions after sort.Slice: the first one
\* is the origin of the clock, gaps[i] is the time between interactions i - 1 and i.
RECURSIVE Timestamp(_, _)
Timestamp(gaps, i) == IF i = 1 THEN 0 ELSE Timestamp(gaps, i - 1) + gaps[i]

\* *baseTime in turn i > 1 of the loop of replaySequential.  baseTime is
\* &interaction.Timestamp, taken at the end of the turn before: the copy of that
\* turn when the loop variable is per iteration, the one variable of the loop,
\* which by now holds interaction i, otherwise.
DerefBaseTime(r, i) ==
    IF r.loopvar = "shared" THEN r.timestamps[i] ELSE r.timestamps[i - 1]

\* The time replaySequential sleeps before it issues interaction i.
replaySequential_Delay(r, i) ==
    IF ~cfg.IgnoreTimestamps /\ i > 1 /\ r.timestamps[i] - DerefBaseTime(r, i) > 0
      THEN r.timestamps[i] - DerefBaseTime(r, i)
      ELSE 0

\* if !result.Success && r.config.FailFast
FailsFast_Never(result) == FALSE

FailsFast(result) == ~result.Success /\ cfg.FailFast

countSuccesses(results) == Cardinality({k \in DOMAIN results : results[k].Success})

\* return nil, fmt.Errorf(...): Replay hands back no session.
NilSession == [nil |-> TRUE]

\* Replay has not been answered to its caller yet.
NoAnswer == [by |-> "none"]

\* The ReplaySession that Replay fills in after the run.
ReplaySession(total, results) ==
    [TotalRequests |-> total, Results |-> results,
     SuccessCount |-> countSuccesses(results),
     FailureCount |-> total - countSuccesses(results)]

Returned(r, err) ==
    [r EXCEPT !.pc = "returned", !.err = err,
              !.session = ReplaySession(Len(r.interactions), r.results)]

InFlight(r) == {i \in DOMAIN r.workers : r.workers[i] = "inflight"}

\* semaphore <- struct{}{} goes through while the channel holds fewer than
\* MaxConcurrency tokens; a goroutine keeps its token until it has stored its result.
SemaphoreFree_Unbounded(r) == TRUE

SemaphoreFree(r) ==
    Cardinality({i \in DOMAIN r.workers : r.workers[i] \in {"inflight", "recorded"}})
       < cfg.MaxConcurrency

InitReplay ==
    /\ sessions = {[id |-> 1, session_name |-> "s1"]}
    /\ seq_sessions = 1
    /\ interactions = {}
    /\ seq_interactions = 0
    /\ stream_chunks = {}
    /\ wal_writer = 0
    /\ ri = [p \in Procs |-> IdleRI]
    /\ rsc = [p \in Procs |-> [pc |-> "idle"]]
    /\ h = [p \in Procs |-> [pc |-> "idle"]]
    /\ sequenceState = <<>>
    /\ served = <<>>
    /\ k0 = [e \in Endpoints |-> 0]
    /\ cfg \in ReplayConfigs
    /\ router = NoRouter
    /\ origin = <<>>
    /\ web = NoWeb
    /\ sse = NoReader
    /\ \E n \in 0..MaxReplayed : \E loaded \in [1..n -> RecordedCalls] :
       \E gaps \in [2..n -> 0..MaxGap], loopvar \in LoopVarSemantics :
          \* replayConcurrent reads neither the timestamps nor ignore_timestamps:
          \* they vary in the sequential runs only.
          /\ cfg.MaxConcurrency > 0 =>
                /\ ~cfg.IgnoreTimestamps
                /\ loopvar = "per-iteration"
                /\ \A i \in 2..n : gaps[i] = MaxGap
          /\ replay = [pc |-> "start", interactions |-> loaded,
                    timestamps |-> [i \in 1..n |-> Timestamp(gaps, i)],
                    loopvar |-> loopvar, slept |-> <<>>,
                    workers |-> [i \in 1..n |-> "waiting"], i |-> 1,
                    results |-> <<>>, issued |-> <<>>,
                    firstError |-> "", err |-> "",
                    session |-> NilSession, answer |-> NoAnswer]

\* Replay, up to the choice between replayConcurrent and replaySequential.
Replay_Start ==
    /\ replay.pc = "start"
    /\ replay' = IF Len(replay.interactions) = 0
                   THEN [replay EXCEPT !.pc = "returned", !.err = "no interactions found"]
                 ELSE IF cfg.MaxConcurrency > 0
                   THEN [replay EXCEPT !.pc = "concurrent"]
                 ELSE [replay EXCEPT !.pc = "sequential"]
    /\ UNCHANGED <<sessions, interactions, stream_chunks, seq_sessions, seq_interactions,
                   wal_writer, ri, rsc, h, sequenceState, served, k0, cfg, router, origin, web, sse>>

\* replaySequential: one turn of the loop, or its end.
replaySequential ==
    /\ replay.pc = "sequential"
    /\ IF replay.i > Len(replay.interactions)
         THEN replay' = Returned(replay, "")
         ELSE \E out \in TargetOutcomes(replay.interactions[replay.i].Protocol) :
                 LET result == replayInteraction(replay.i, replay.interactions[replay.i], out)
                     added == [replay EXCEPT !.results = Append(@, result),
                                             !.issued = Append(@, replay.i),
                                             !.slept = Append(@, replaySequential_Delay(replay, replay.i)),
                                             !.i = @ + 1]
                 IN  replay' = IF FailsFast(result)
                                 THEN Returned(added, "replay failed")
                                 ELSE added
    /\ UNCHANGED <<sessions, interactions, stream_chunks, seq_sessions, seq_interactions,
                   wal_writer, ri, rsc, h, sequenceState, served, k0, cfg, router, origin, web, sse>>

\* replayConcurrent, goroutine idx: acquires the semaphore and issues its call.
replayConcurrent_Acquire(idx) ==
    /\ replay.pc = "concurrent"
    /\ idx \in DOMAIN replay.workers
    /\ replay.workers[idx] = "waiting"
    /\ SemaphoreFree(replay)
    /\ replay' = [replay EXCEPT !.workers[idx] = "inflight",
                                !.issued = Append(@, idx)]
    /\ UNCHANGED <<sessions, interactions, stream_chunks, seq_sessions, seq_interactions,
                   wal_writer, ri, rsc, h, sequenceState, served, k0, cfg, router, origin, web, sse>>

\* The call of goroutine idx completes: addResult, then firstError.
replayConcurrent_Result(idx) ==
    /\ replay.pc = "concurrent"
    /\ idx \in DOMAIN replay.workers
    /\ replay.workers[idx] = "inflight"
    /\ \E out \in TargetOutcomes(replay.interactions[idx].Protocol) :
          LET result == replayInteraction(idx, replay.interactions[idx], out)
          IN  replay' = [replay EXCEPT
                           !.workers[idx] = "recorded",
                           !.results = Append(@, result),
                           !.firstError = IF FailsFast(result) /\ @ = ""
                                            THEN "replay failed" ELSE @]
    /\ UNCHANGED <<sessions, interactions, stream_chunks, seq_sessions, seq_interactions,
                   wal_writer, ri, rsc, h, sequenceState, served, k0, cfg, router, origin, web, sse>>

\* The deferred <-semaphore and wg.Done() of goroutine idx.
replayConcurrent_Release(idx) ==
    /\ replay.pc = "concurrent"
    /\ idx \in DOMAIN replay.workers
    /\ replay.workers[idx] = "recorded"
    /\ replay' = [replay EXCEPT !.workers[idx] = "done"]
    /\ UNCHANGED <<sessions, interactions, stream_chunks, seq_sessions, seq_interactions,
                   wal_writer, ri, rsc, h, sequenceState, served, k0, cfg, router, origin, web, sse>>

\* wg.Wait() returns; return firstError.
replayConcurrent_Wait ==
    /\ replay.pc = "concurrent"
    /\ \A i \in DOMAIN replay.workers : replay.workers[i] = "done"
    /\ replay' = Returned(replay, replay.firstError)
    /\ UNCHANGED <<sessions, interactions, stream_chunks, seq_sessions, seq_interactions,
                   wal_writer, ri, rsc, h, sequenceState, served, k0, cfg, router, origin, web, sse>>

\* ReplayHandler.handleReplay after engine.Replay(): the error is logged, then
\* replaySession.FailureCount is read.  With a nil session that is a nil
\* pointer dereference; net/http recovers the panic of a handler and closes the
\* connection, so the client gets no response and the server lives on.
handleReplay(session, err) ==
    IF session = NilSession
      THEN [by |-> "handleReplay", kind |-> "panic", message |-> "", exited |-> FALSE]
    ELSE IF session.FailureCount > 0
      THEN [by |-> "handleReplay", kind |-> "417", message |-> "", exited |-> FALSE]
    ELSE [by |-> "handleReplay", kind |-> "200", message |-> "", exited |-> FALSE]

\* runReplay after engine.Replay(): log.Fatal on an error when fail_fast is set,
\* else the summary is printed from the session; a nil session makes the
\* process panic.  The command exits with 1 when there were failures.
runReplay(session, err) ==
    IF err # "" /\ cfg.FailFast
      THEN [by |-> "runReplay", kind |-> "fatal", message |-> err, exited |-> TRUE]
    ELSE IF session = NilSession
      THEN [by |-> "runReplay", kind |-> "panic", message |-> "", exited |-> TRUE]
    ELSE [by |-> "runReplay", kind |-> "summary", message |-> "", exited |-> session.FailureCount > 0]

handleReplay_Respond ==
    /\ replay.pc = "returned"
    /\ replay' = [replay EXCEPT !.pc = "answered",
                                !.answer = handleReplay(replay.session, replay.err)]
    /\ UNCHANGED <<sessions, interactions, stream_chunks, seq_sessions, seq_interactions,
                   wal_writer, ri, rsc, h, sequenceState, served, k0, cfg, router, origin, web, sse>>

runReplay_Summary ==
    /\ replay.pc = "returned"
    /\ replay' = [replay EXCEPT !.pc = "answered",
                                !.answer = runReplay(replay.session, replay.err)]
    /\ UNCHANGED <<sessions, interactions, stream_chunks, seq_sessions, seq_interactions,
                   wal_writer, ri, rsc, h, sequenceState, served, k0, cfg, router, origin, web, sse>>

NextReplay ==
    \/ Replay_Start
    \/ replaySequential
    \/ \E idx \in 1..MaxReplayed : replayConcurrent_Acquire(idx)
    \/ \E idx \in 1..MaxReplayed : replayConcurrent_Result(idx)
    \/ \E idx \in 1..MaxReplayed : replayConcurrent_Release(idx)
    \/ replayConcurrent_Wait
    \/ handleReplay_Respond
    \/ runReplay_Summary

SpecReplay == InitReplay /\ [][NextReplay]_vars

\* A result that failed has been stored by a concurrent run with fail_fast set.
FailureRecorded ==
    /\ replay.pc = "concurrent"
    /\ cfg.FailFast
    /\ \E k \in DOMAIN replay.results : ~replay.results[k].Success

\* C21: with fail_fast set in concurrent replay mode, once a failing result is
\* recorded no interaction that is not yet in flight is issued to the target.
C21_NoIssueAfterFailure ==
    [][FailureRecorded =>
          \A idx \in DOMAIN replay.workers :
             ~(replay.workers[idx] = "waiting" /\ replay'.workers[idx] = "inflight")]_vars

\* C22: with fail_fast set in sequential replay mode, a failing result is the
\* last one: no later interaction is issued and the replay has returned an error.
C22_SequentialStopsAtFailure ==
    (replay.pc \in {"sequential", "returned"} /\ cfg.FailFast /\ cfg.MaxConcurrency = 0) =>
       \A k \in DOMAIN replay.results :
          ~replay.results[k].Success =>
             /\ k = Len(replay.results)
             /\ replay.issued = [j \in 1..k |-> j]
             /\ replay.pc = "returned"
             /\ replay.err # ""

\* A sequential fail-fast run returned an error before its last interaction.
C22_Witness ==
    /\ replay.pc = "returned"
    /\ cfg.FailFast
    /\ cfg.MaxConcurrency = 0
    /\ replay.err = "replay failed"
    /\ Len(replay.results) < Len(replay.interactions)
    /\ ~replay.results[Len(replay.results)].Success

\* C23: in concurrent replay mode at most max_concurrency calls to the target
\* are in flight at any moment.
C23_InFlightBounded ==
    replay.pc = "concurrent" => Cardinality(InFlight(replay)) <= cfg.MaxConcurrency

\* The semaphore is full while another goroutine waits for it.
C23_Witness ==
    /\ replay.pc = "concurrent"
    /\ Cardinality(InFlight(replay)) = cfg.MaxConcurrency
    /\ \E idx \in DOMAIN replay.workers : replay.workers[idx] = "waiting"

\* C24: under the exact strategy a replayed call is marked successful exactly
\* when the call completed without a transport error, the actual status equals
\* the recorded status and the actual body equals the recorded body.
C24_ExactSuccessIff ==
    (replay.pc # "none" /\ cfg.MatchingStrategy = "exact") =>
       \A k \in DOMAIN replay.results :
          LET result == replay.results[k]
          IN  result.Success <=>
                 /\ result.outcome # "transport"
                 /\ result.ActualStatus = result.ExpectedStatus
                 /\ result.ActualBody = result.ExpectedBody

-----------------------------------------------------------------------------
(* Observer events.  The engines call BroadcastRequest and BroadcastResponse *)
(* on the request path; one goroutine, handleBroadcast, takes the messages   *)
(* from the unbuffered channel Server.broadcast and writes them to the       *)
(* WebSocket clients.                                                        *)

MaxExchanges == 2

IdleObserved == [pc |-> "idle", n |-> 0, sent |-> 0, dropped |-> 0]

\* select { case s.broadcast <- messageBytes: default: } on the unbuffered
\* channel: the send goes through only while handleBroadcast waits in its receive.
BroadcastEvent_BlockingSend(dispatcher) ==
    IF dispatcher = "receiving" THEN "sent" ELSE "blocked"

BroadcastEvent(dispatcher) ==
    IF dispatcher = "receiving" THEN "sent" ELSE "dropped"

\* The handler after the call of BroadcastEvent with the given result.
AfterBroadcast(hp, result, next) ==
    IF result = "blocked" THEN [hp EXCEPT !.pc = "blocked"]
    ELSE IF result = "sent" THEN [hp EXCEPT !.pc = next, !.sent = @ + 1]
    ELSE [hp EXCEPT !.pc = next, !.dropped = @ + 1]

Emit(p, from, next) ==
    /\ h[p].pc = from
    /\ h' = [h EXCEPT ![p] = AfterBroadcast(h[p], BroadcastEvent(web.dispatcher), next)]
    /\ web' = IF BroadcastEvent(web.dispatcher) = "sent"
                THEN [web EXCEPT !.dispatcher = "writing"]
                ELSE web
    /\ UNCHANGED <<sessions, interactions, stream_chunks, seq_sessions, seq_interactions,
                   wal_writer, ri, rsc, sequenceState, served, k0, cfg, router, origin,
                   replay, sse>>

\* handleRequest up to the forwarding of the request: BroadcastRequest.
handleRequest_BroadcastRequest(p) ==
    /\ h[p].n < MaxExchanges
    /\ Emit(p, "idle", "upstream")

\* handleRequest after the response of the upstream: BroadcastResponse.
handleRequest_BroadcastResponse(p) ==
    /\ Emit(p, "upstream", "respond")

\* The rest of the request: the response goes to the client.
handleRequest_Respond(p) ==
    /\ h[p].pc = "respond"
    /\ h' = [h EXCEPT ![p] = [@ EXCEPT !.pc = "idle", !.n = @ + 1]]
    /\ UNCHANGED <<sessions, interactions, stream_chunks, seq_sessions, seq_interactions,
                   wal_writer, ri, rsc, sequenceState, served, k0, cfg, router, origin,
                   replay, web, sse>>

\* handleBroadcast has written the message to every client and receives again;
\* a client that does not read keeps it in WriteMessage for as long as it likes.
handleBroadcast ==
    /\ web.dispatcher = "writing"
    /\ web' = [web EXCEPT !.dispatcher = "receiving"]
    /\ UNCHANGED <<sessions, interactions, stream_chunks, seq_sessions, seq_interactions,
                   wal_writer, ri, rsc, h, sequenceState, served, k0, cfg, router, origin,
                   replay, sse>>

InitBroadcast ==
    /\ sessions = {[id |-> 1, session_name |-> "s1"]}
    /\ seq_sessions = 1
    /\ interactions = {}
    /\ seq_interactions = 0
    /\ stream_chunks = {}
    /\ wal_writer = 0
    /\ ri = [p \in Procs |-> IdleRI]
    /\ rsc = [p \in Procs |-> [pc |-> "idle"]]
    /\ h = [p \in Procs |-> IdleObserved]
    /\ sequenceState = <<>>
    /\ served = <<>>
    /\ k0 = [e \in Endpoints |-> 0]
    /\ cfg = NoConfig
    /\ router = NoRouter
    /\ origin = <<>>
    /\ replay = NoReplay
    /\ web = [dispatcher |-> "receiving"]
    /\ sse = NoReader

NextBroadcast ==
    \/ \E p \in Procs : handleRequest_BroadcastRequest(p)
    \/ \E p \in Procs : handleRequest_BroadcastResponse(p)
    \/ \E p \in Procs : handleRequest_Respond(p)
    \/ handleBroadcast

SpecBroadcast == InitBroadcast /\ [][NextBroadcast]_vars

\* The events a handler has emitted so far.
Emitted(hp) == 2 * hp.n + (IF hp.pc \in {"upstream", "respond"} THEN 1 ELSE 0)
                       + (IF hp.pc = "respond" THEN 1 ELSE 0)

\* C25: emitting an observer event never blocks the request path: no handler
\* waits in BroadcastEvent, and every event emitted so far was either handed
\* to the dispatcher or dropped.
C25_EmitNeverBlocks ==
    \A p \in Procs :
       /\ h[p].pc # "blocked"
       /\ h[p].sent + h[p].dropped = Emitted(h[p])

\* A request went on after its event was dropped while the dispatcher was busy
\* writing to the clients.
C25_Witness ==
    \E p \in Procs :
       /\ h[p].pc = "respond"
       /\ h[p].dropped > 0
       /\ web.dispatcher = "writing"

-----------------------------------------------------------------------------
(* The SSE stream reader.  A stream is a sequence of bytes: "d" stands for   *)
(* any byte that is not white space, " " for white space other than the line *)
(* feed.                                                                     *)

MaxStream == 4
MaxWait == 1

StreamBytes == {"d", " ", "\n"}

Streams == UNION {[1..n -> StreamBytes] : n \in 0..MaxStream}

\* bufio.Reader.ReadBytes('\n'): the bytes up to and including the first line
\* feed, or everything that is left together with io.EOF.
LineEnd(rest) ==
    IF \E i \in DOMAIN rest : rest[i] = "\n"
      THEN SetMin({i \in DOMAIN rest : rest[i] = "\n"})
      ELSE 0

\* len(bytes.TrimSpace(line)) == 0
IsBlank(line) == \A i \in DOMAIN line : line[i] \in {" ", "\n"}

\* ReadChunk: the loop over the lines, from the bytes not yet read and the
\* buffer filled so far.  The result is the chunk (raw data), the error and the
\* bytes left unread.
RECURSIVE ReadChunk_Loop(_, _)
ReadChunk_Loop(rest, buffer) ==
    IF LineEnd(rest) = 0
      THEN IF Len(buffer) > 0
             THEN [chunk |-> buffer, nil |-> FALSE, err |-> "EOF", rest |-> <<>>]
             ELSE [chunk |-> <<>>, nil |-> TRUE, err |-> "EOF", rest |-> <<>>]
      ELSE LET line == SubSeq(rest, 1, LineEnd(rest))
               left == SubSeq(rest, LineEnd(rest) + 1, Len(rest))
           IN  IF IsBlank(line) /\ Len(buffer \o line) > 1
                 THEN [chunk |-> buffer \o line, nil |-> FALSE, err |-> "", rest |-> left]
                 ELSE ReadChunk_Loop(left, buffer \o line)

ReadChunk(rest) == ReadChunk_Loop(rest, <<>>)

InitSSE ==
    /\ sessions = {[id |-> 1, session_name |-> "s1"]}
    /\ seq_sessions = 1
    /\ interactions = {}
    /\ seq_interactions = 0
    /\ stream_chunks = {}
    /\ wal_writer = 0
    /\ ri = [p \in Procs |-> IdleRI]
    /\ rsc = [p \in Procs |-> [pc |-> "idle"]]
    /\ h = [p \in Procs |-> [pc |-> "idle"]]
    /\ sequenceState = <<>>
    /\ served = <<>>
    /\ k0 = [e \in Endpoints |-> 0]
    /\ cfg = NoConfig
    /\ router = NoRouter
    /\ origin = <<>>
    /\ replay = NoReplay
    /\ web = NoWeb
    /\ \E stream \in Streams :
          sse = [pc |-> "reading", stream |-> stream, rest |-> stream, boundary |-> 0,
                 chunks |-> <<>>, now |-> 0, lastTime |-> 0]

\* &SSEChunk{RawData, Timestamp: now, TimeDelta: now.Sub(r.lastTime).Milliseconds()}
SSEChunk(rawData, now, lastTime) ==
    [RawData |-> rawData, Timestamp |-> now, TimeDelta |-> now - lastTime]

\* ReadAllChunks: one turn of its loop.  The clock counts milliseconds from the
\* creation of the reader; wait is the time until ReadChunk returns.
ReadAllChunks ==
    /\ sse.pc = "reading"
    /\ \E wait \in 0..MaxWait :
         LET read == ReadChunk(sse.rest)
             now == sse.now + wait
         IN  sse' = [sse EXCEPT
                       !.pc = IF read.err = "EOF" THEN "done" ELSE "reading",
                       !.rest = read.rest,
                       !.boundary = IF read.err = "EOF" THEN @ ELSE Len(sse.stream) - Len(read.rest),
                       !.now = now,
                       !.lastTime = IF read.nil THEN @ ELSE now,
                       !.chunks = IF read.nil THEN @
                                  ELSE Append(@, SSEChunk(read.chunk, now, sse.lastTime))]
    /\ UNCHANGED <<sessions, interactions, stream_chunks, seq_sessions, seq_interactions,
                   wal_writer, ri, rsc, h, sequenceState, served, k0, cfg, router, origin,
                   replay, web>>

NextSSE == ReadAllChunks

SpecSSE == InitSSE /\ [][NextSSE]_vars

\* The bytes of the stream after the last event boundary.
AfterLastBoundary == SubSeq(sse.stream, sse.boundary + 1, Len(sse.stream))

\* C26: when the stream has ended and bytes were received after the last event
\* boundary, the last chunk returned holds all of those bytes.
C26_FinalChunkYielded ==
    (sse.pc = "done" /\ AfterLastBoundary # <<>>) =>
       /\ Len(sse.chunks) > 0
       /\ sse.chunks[Len(sse.chunks)].RawData = AfterLastBoundary

\* C27: RecordStreamChunks called with an empty batch returns success at once
\* and leaves every table of the store as it was.
C27_EmptyBatchNoOp ==
    [][\A p \in Procs :
         (rsc[p].pc = "idle" /\ rsc'[p].pc # "idle" /\ rsc'[p].batch = <<>>) =>
            /\ rsc'[p].pc = "ok"
            /\ UNCHANGED <<sessions, interactions, stream_chunks, seq_sessions,
                           seq_interactions, wal_writer>>]_vars

\* A call with an empty batch has returned success while chunks are stored.
C27_Witness ==
    \E p \in Procs :
       /\ rsc[p].pc = "ok"
       /\ rsc[p].batch = <<>>
       /\ stream_chunks # {}

\* C28: in every reachable state of the store, under record, import and clear
\* operations, the session_id of every stored interaction is the id of an
\* existing session row.
C28_SessionIdRefersToSession ==
    \A r \in interactions : \E s \in sessions : s.id = r.session_id

\* C29: whatever the interleaving of concurrent get_or_create_session calls
\* with one name, at most one session row has that name and the calls that
\* have returned were all given the same session.
C29_ConcurrentGetOrCreateUnique ==
    /\ \A s1, s2 \in sessions : s1.session_name = s2.session_name => s1 = s2
    /\ \A p, q \in Procs :
          (h[p].pc = "got" /\ h[q].pc = "got" /\ h[p].name = h[q].name) => h[p].id = h[q].id

\* C30: when M identical mock requests (M <= K) have been served from a fresh
\* cursor with K recorded candidates, in any interleaving, no candidate was
\* served twice and the candidates served are the M lowest-numbered ones.
C30_ConcurrentServedOnce ==
    \A body \in RequestBodies :
        LET cands == CandidatesOf(body)
            hist == ServedTo(body)
            M == Len(hist)
        IN  M <= Cardinality(cands) =>
               /\ \A i, j \in 1..M : hist[i].interaction = hist[j].interaction => i = j
               /\ {hist[i].interaction : i \in 1..M} =
                     {c \in cands :
                        Cardinality({d \in cands : d.sequence_number < c.sequence_number}) < M}

\* Two processes sent the same request and were served two different
\* candidates, process 2 before process 1.
C30_Witness ==
    \E body \in RequestBodies :
       /\ Len(ServedTo(body)) = 2
       /\ Cardinality(CandidatesOf(body)) >= 2
       /\ \A p \in {1, 2} : h[p].pc = "done" /\ h[p].req.body = body
       /\ h[1].client.body # h[2].client.body
       /\ h[2].client.body = ServedTo(body)[1].interaction.response_body


-----------------------------------------------------------------------------
(* A streaming gRPC call through the raw proxy.  proxyRawStream starts one   *)
(* goroutine per direction and returns the first value that either of them   *)
(* puts on errCh; the return of the handler completes the call toward the    *)
(* caller and cancels the context of both streams.  Calls share no state, so *)
(* one call is followed.                                                     *)

MaxMessages == 2

StreamingCall == SetMin(Procs)

IdleStream == [pc |-> "idle"]

\* errCh <- v on the channel of capacity two: neither goroutine ever waits.
SendErrCh(hp, v) == [hp EXCEPT !.errCh = Append(@, v)]

\* The request goroutine in serverStream.RecvMsg: the next request of the
\* caller, io.EOF once the caller has finished sending, an error once the
\* handler has returned.
proxyRawStream_RecvRequest(p) ==
    /\ h[p].pc \in {"streaming", "returned"}
    /\ h[p].requestLoop = "recv"
    /\ h' = [h EXCEPT ![p] =
               IF h[p].pc = "returned"
                 THEN [SendErrCh(h[p], "server recv error") EXCEPT !.requestLoop = "done"]
               ELSE IF h[p].received < h[p].requests
                 THEN [h[p] EXCEPT !.received = @ + 1, !.requestLoop = "send"]
               ELSE [SendErrCh(h[p], "nil") EXCEPT !.requestLoop = "done"]]
    /\ UNCHANGED <<sessions, interactions, stream_chunks, seq_sessions, seq_interactions,
                   wal_writer, ri, rsc, sequenceState, served, k0, cfg, router, origin,
                   replay, web, sse>>

\* The request goroutine in clientStream.SendMsg.
proxyRawStream_SendRequest(p) ==
    /\ h[p].pc \in {"streaming", "returned"}
    /\ h[p].requestLoop = "send"
    /\ h' = [h EXCEPT ![p] =
               IF h[p].pc = "returned"
                 THEN [SendErrCh(h[p], "client send error") EXCEPT !.requestLoop = "done"]
               ELSE [h[p] EXCEPT !.requestLoop = "recv"]]
    /\ UNCHANGED <<sessions, interactions, stream_chunks, seq_sessions, seq_interactions,
                   wal_writer, ri, rsc, sequenceState, served, k0, cfg, router, origin,
                   replay, web, sse>>

\* The response goroutine in clientStream.RecvMsg: the next response of the
\* upstream, io.EOF at its end-of-stream, an error once the handler has returned.
proxyRawStream_RecvResponse(p) ==
    /\ h[p].pc \in {"streaming", "returned"}
    /\ h[p].responseLoop = "recv"
    /\ h' = [h EXCEPT ![p] =
               IF h[p].pc = "returned"
                 THEN [SendErrCh(h[p], "client recv error") EXCEPT !.responseLoop = "done"]
               ELSE IF h[p].taken < h[p].responses
                 THEN [h[p] EXCEPT !.taken = @ + 1, !.responseLoop = "send"]
               ELSE [SendErrCh(h[p], "nil") EXCEPT !.responseLoop = "done"]]
    /\ UNCHANGED <<sessions, interactions, stream_chunks, seq_sessions, seq_interactions,
                   wal_writer, ri, rsc, sequenceState, served, k0, cfg, router, origin,
                   replay, web, sse>>

\* The response goroutine in serverStream.SendMsg: the message reaches the
\* caller unless the call is already completed.
proxyRawStream_SendResponse(p) ==
    /\ h[p].pc \in {"streaming", "returned"}
    /\ h[p].responseLoop = "send"
    /\ h' = [h EXCEPT ![p] =
               IF h[p].pc = "returned"
                 THEN [SendErrCh(h[p], "server send error") EXCEPT !.responseLoop = "done"]
               ELSE [h[p] EXCEPT !.forwarded = @ + 1, !.responseLoop = "recv"]]
    /\ UNCHANGED <<sessions, interactions, stream_chunks, seq_sessions, seq_interactions,
                   wal_writer, ri, rsc, sequenceState, served, k0, cfg, router, origin,
                   replay, web, sse>>

\* return <-errCh: the handler returns the first value on the channel.
proxyRawStream_Return(p) ==
    /\ h[p].pc = "streaming"
    /\ h[p].errCh # <<>>
    /\ h' = [h EXCEPT ![p] = [@ EXCEPT !.pc = "returned",
                                       !.result = Head(h[p].errCh),
                                       !.errCh = Tail(h[p].errCh)]]
    /\ UNCHANGED <<sessions, interactions, stream_chunks, seq_sessions, seq_interactions,
                   wal_writer, ri, rsc, sequenceState, served, k0, cfg, router, origin,
                   replay, web, sse>>

InitStream ==
    /\ sessions = {[id |-> 1, session_name |-> "s1"]}
    /\ seq_sessions = 1
    /\ interactions = {}
    /\ seq_interactions = 0
    /\ stream_chunks = {}
    /\ wal_writer = 0
    /\ ri = [p \in Procs |-> IdleRI]
    /\ rsc = [p \in Procs |-> [pc |-> "idle"]]
    /\ \E requests \in 0..MaxMessages, responses \in 0..MaxMessages :
          h = [p \in Procs |->
                 IF p = StreamingCall
                   THEN [pc |-> "streaming", requests |-> requests, responses |-> responses,
                         received |-> 0, taken |-> 0, forwarded |-> 0,
                         requestLoop |-> "recv", responseLoop |-> "recv",
                         errCh |-> <<>>, result |-> "none"]
                   ELSE IdleStream]
    /\ sequenceState = <<>>
    /\ served = <<>>
    /\ k0 = [e \in Endpoints |-> 0]
    /\ cfg = NoConfig
    /\ router = NoRouter
    /\ origin = <<>>
    /\ replay = NoReplay
    /\ web = NoWeb
    /\ sse = NoReader

NextStream ==
    \/ proxyRawStream_RecvRequest(StreamingCall)
    \/ proxyRawStream_SendRequest(StreamingCall)
    \/ proxyRawStream_RecvResponse(StreamingCall)
    \/ proxyRawStream_SendResponse(StreamingCall)
    \/ proxyRawStream_Return(StreamingCall)

SpecStream == InitStream /\ [][NextStream]_vars

\* C31: a streaming call is completed toward the caller only after every
\* response the upstream sent up to its end-of-stream was forwarded to the caller.
C31_CompletesAfterAllForwarded ==
    h[StreamingCall].pc = "returned" =>
        h[StreamingCall].forwarded = h[StreamingCall].responses


\* C32: in every session result that Replay returns, success_count and
\* failure_count are the numbers of results with success true and false, and
\* success_count + failure_count = total = number of results.
C32_CountsAgree ==
    (replay.pc = "returned" /\ replay.session # NilSession) =>
       LET s == replay.session
       IN  /\ s.SuccessCount = Cardinality({k \in DOMAIN s.Results : s.Results[k].Success})
           /\ s.FailureCount = Cardinality({k \in DOMAIN s.Results : ~s.Results[k].Success})
           /\ s.SuccessCount + s.FailureCount = s.TotalRequests
           /\ s.TotalRequests = Len(s.Results)


\* C33: a replay request, through the HTTP replay handler or the replay
\* command, for a session without interactions is answered with a descriptive
\* error and does not crash.
C33_EmptySessionAnswered ==
    (replay.pc = "answered" /\ Len(replay.interactions) = 0) =>
       /\ replay.answer.kind # "panic"
       /\ replay.answer.message = "no interactions found"


-----------------------------------------------------------------------------
(* gRPC mock mode: handleGRPCMockRequest answers a call from the session     *)
(* that handleUnaryCall recorded.                                            *)

\* The rows handleUnaryCall stored for calls of /pkg.Svc/Get that ended with
\* outcomes[1], outcomes[2], ...
RecordedCallRows(outcomes) ==
    {Row(i, 1, GenerateRequestID(i), "/pkg.Svc/Get", "/pkg.Svc/Get", "q",
         outcomes[i].code, outcomes[i].body, i, FALSE) : i \in DOMAIN outcomes}

MockFaults == {"none", "find", "recv", "send"}

\* handleGRPCMockRequest.  fault: FindMatchingInteractions, stream.RecvMsg or
\* stream.SendMsg fails.
handleGRPCMockRequest(p) ==
    /\ h[p].pc = "idle"
    /\ \E method \in GrpcMethods, fault \in MockFaults :
          LET found == FindMatchingInteractions(1, method, method)
              hp == [fault |-> fault] @@ [h[p] EXCEPT !.method = method]
              selected == [hp EXCEPT !.interaction = found[1]]
          IN  h' = [h EXCEPT ![p] =
                      IF fault = "find" THEN GrpcReturn(hp, codes.Internal)
                      ELSE IF Len(found) = 0 THEN GrpcReturn(hp, codes.NotFound)
                      ELSE IF fault = "recv" THEN GrpcReturn(selected, codes.Internal)
                      ELSE IF Len(found[1].response_body) > 0
                        THEN IF fault = "send"
                               THEN GrpcReturn(selected, codes.Internal)
                               ELSE [selected EXCEPT !.pc = "done",
                                        !.caller = [code |-> codes.OK,
                                                    body |-> found[1].response_body]]
                      ELSE GrpcReturn(selected, codes.OK)]
    /\ UNCHANGED <<sessions, interactions, stream_chunks, seq_sessions, seq_interactions,
                   wal_writer, ri, rsc, sequenceState, served, k0, cfg, router, origin,
                   replay, web, sse>>

InitGrpcMock ==
    /\ sessions = {[id |-> 1, session_name |-> "s1"]}
    /\ seq_sessions = 1
    /\ \E n \in 0..MaxRecorded : \E outcomes \in [1..n -> GrpcOutcomes] :
          /\ interactions = RecordedCallRows(outcomes)
          /\ seq_interactions = n
    /\ stream_chunks = {}
    /\ wal_writer = 0
    /\ ri = [p \in Procs |-> IdleRI]
    /\ rsc = [p \in Procs |-> IdleRSC]
    /\ h = [p \in Procs |-> IdleCall]
    /\ sequenceState = <<>>
    /\ served = <<>>
    /\ k0 = [e \in Endpoints |-> 0]
    /\ cfg = NoConfig
    /\ router = NoRouter
    /\ origin = <<>>
    /\ replay = NoReplay
    /\ web = NoWeb
    /\ sse = NoReader

NextGrpcMock == \E p \in Procs : handleGRPCMockRequest(p)

SpecGrpcMock == InitGrpcMock /\ [][NextGrpcMock]_vars

\* C34: in gRPC mock mode a call whose recorded interaction has a non-OK
\* status is answered with that recorded status code.
C34_RecordedStatusAnswered ==
    \A p \in Procs :
       (/\ h[p].pc = "done"
        /\ h[p].fault = "none"
        /\ h[p].interaction # NoRow
        /\ h[p].interaction.response_status # codes.OK) =>
           h[p].caller.code = h[p].interaction.response_status


\* The non-default routes of the configuration whose patterns match the call.
MatchingRoutes(serviceName, methodName) ==
    {n \in DOMAIN cfg.Proxies :
        /\ ~cfg.Proxies[n].IsDefault
        /\ ConfiguredPatternsMatch(cfg.Proxies[n], serviceName, methodName)}

\* C35: when several non-default gRPC routes match a call, the route chosen
\* for it is the one that every start of the server with the same
\* configuration chooses.  (Configurations whose patterns all compile.)
C35_SameRouteOnEveryStart ==
    \A p \in Procs :
        (/\ RoutedCall(p)
         /\ ~HasInvalidRegex(cfg)
         /\ Cardinality(MatchingRoutes(h[p].parts[1], h[p].parts[2])) > 1) =>
            \A order \in MapOrders(DOMAIN cfg.Proxies), loopvar \in LoopVarSemantics :
                findRoute(NewGRPCRouter(cfg.Proxies, order, loopvar),
                          h[p].parts[1], h[p].parts[2]).Name = h[p].route.Name


\* C36: the first chunk read from an SSE stream has time_delta_ms = 0, and
\* every later chunk's time_delta_ms is the time elapsed since the previous
\* chunk was read.
C36_FirstDeltaZero ==
    \A k \in DOMAIN sse.chunks :
       sse.chunks[k].TimeDelta =
          IF k = 1 THEN 0 ELSE sse.chunks[k].Timestamp - sse.chunks[k - 1].Timestamp

RECURSIVE Concatenation(_)
Concatenation(chunks) ==
    IF chunks = <<>> THEN <<>> ELSE Head(chunks).RawData \o Concatenation(Tail(chunks))

\* C37: the concatenation, in order, of the raw data of the chunks returned
\* by ReadAllChunks equals the bytes of the stream.
C37_ChunksCoverStream ==
    sse.pc = "done" => Concatenation(sse.chunks) = sse.stream


\* C38: under fuzzy matching a recorded JSON number matches a current value
\* only when the current value is a number too and equal by value (the
\* elements of the array "items", compared position by position).
C38_PrimitiveSameKind ==
    cfg.MatchingStrategy = "fuzzy" =>
        \A i \in DOMAIN served :
            (/\ served[i].matched
             /\ TheRecorded.request \in ArrayBodies
             /\ served[i].request.body \in ArrayBodies) =>
                LET rec == TheRecorded.request.v["items"].v
                    cur == served[i].request.body.v["items"].v
                IN  \A k \in DOMAIN rec :
                       rec[k].t = "num" => (cur[k].t = "num" /\ cur[k].v = rec[k].v)


\* C39: any two gRPC calls handled by the proxy, concurrent ones included, are
\* given different request ids.
C39_DistinctRequestIDs ==
    \A p, q \in Procs :
        (p # q /\ h[p].interaction # NoRow /\ h[q].interaction # NoRow) =>
            h[p].interaction.request_id # h[q].interaction.request_id


=============================================================================
